---- MODULE Spec2Model ----
\* A model of the replay engine of mysql-replay (sqlreplay.go): the replay
\* session (ApplyEvent, statement cache, connection handling) and the
\* per-connection pipeline (event queue, apply worker, outcome queue,
\* persist worker).
EXTENDS Integers, Naturals, Sequences, FiniteSets, TLC

\* ---------------------------------------------------------------- bounds
\* how many events the apply worker handles in one run
MaxEvents == 3
\* how many times the target answers 1205 while one event is applied
MaxLockWaits == 2
\* how many times the target answers with a (wrapped) connection-loss error
\* while one event is applied
MaxConnLoss == 2

\* the capacity of a handler's two channels (10000 in the program)
ChanCap == 2
\* how many events the producers admit in one run of the pipeline
MaxAdmit == 3
\* how many frames the protocol session is handed in one run
MaxFrames == 4
\* how many frames are buffered when load is called by itself
MaxPackets == 3
\* how many calls of MarshalJSON the goroutine's stack holds
MaxDepth == 3
\* how many calls of writeEventToFile all apply workers make
MaxWrites == 4

\* ------------------------------------------------------ program constants
LockWaitTimeout == 1205
StmtNotExist == 10000
NotMySQLError == 20000
\* sequence numbers are one byte: uint8(Seq + 1)
SeqModulus == 256

\* ------------------------------------------------------------ value sets
StmtIDs == {"7", "99"}
QueryTexts == {"SELECT 1", "SELECT 2"}
Schemas == {"", "db1"}
\* cfg.DBName of the base configuration
BaseDB == "base"
\* the nil pointer
Nil == [nil |-> TRUE]
\* a field the event kind does not carry
None == ""

\* util.Event* kinds; "Other" is any kind the switch does not know
EventTypes == {"EventQuery", "EventStmtPrepare", "EventStmtExecute",
               "EventStmtClose", "EventHandshake", "EventQuit", "Other"}
\* the answers of cfg.CheckNeedReplay; "Unsupported" is any other value
Directives == {"NotWriteLog", "NeedWriteLog", "NeedReplaySQL", "Unsupported"}

\* ---------------------------------------------------------------- errors
\* An error value is nil, a *mysql.MySQLError, one of the three sentinel
\* errors tested at the reconnect check, an error that wraps one of them
\* (its Unwrap gives the sentinel), or any other error.
NoErr == [t |-> "nil"]
MySQLError(n, m) == [t |-> "mysql", Number |-> n, Message |-> m]
Sentinel(s) == [t |-> "sentinel", s |-> s]
Wrapped(s) == [t |-> "wrapped", cause |-> s]
OtherErr == [t |-> "other"]

Sentinels == {"context.DeadlineExceeded", "sql.ErrConnDone", "mysql.ErrInvalidConn"}

\* errors.Unwrap: the wrapped cause, nil for an error that wraps nothing
Unwrap(e) == IF e.t = "wrapped" THEN Sentinel(e.cause) ELSE NoErr

IsMySQLError(e) == e.t = "mysql"
IsLockWait(e) == IsMySQLError(e) /\ e.Number = LockWaitTimeout
\* the test of the reconnect branch
IsConnLoss(e) == Unwrap(e) \in {Sentinel(s) : s \in Sentinels}

\* What the target server and the driver may answer.
\* sql.Open
OpenErrs == {NoErr, OtherErr}
\* pool.Conn: the connect itself never meets a lock wait
ConnErrs == {NoErr, MySQLError(1045, "Access denied"), Wrapped("sql.ErrConnDone"),
             Sentinel("mysql.ErrInvalidConn"), OtherErr}
\* PrepareContext / QueryContext
StmtErrs == {NoErr, MySQLError(LockWaitTimeout, "Lock wait timeout exceeded"),
             MySQLError(1064, "syntax error"), Wrapped("sql.ErrConnDone"),
             Wrapped("context.DeadlineExceeded"),
             Sentinel("mysql.ErrInvalidConn"), OtherErr}

\* A fetched row is the tuple of its column values (lastcols): NULL, a value
\* that converts to a string, or a value whose conversion fails.
ColNull == "NULL"
ColBad == "unconvertible"
\* the columns of every result set of the model
Columns == <<"col1", "col2">>
FetchedRows == {<<>>, <<<<"a", ColNull>>>>, <<<<"a", ColBad>>>>,
                <<<<"a", "b">>, <<ColBad, "c">>>>}
\* the answer to a QueryContext: an error, or the rows of the result
QueryAnswers ==
  [err : StmtErrs \ {NoErr}, rows : {<<>>}] \cup [err : {NoErr}, rows : FetchedRows]

\* ---------------------------------------------------------------- state
VARIABLES
  dsn,        \* len(h.cfg.Dsn) > 0
  schema,     \* h.schema
  pool,       \* h.pool: Nil or the pool, with the database it is scoped to
  conn,       \* h.conn: Nil or the pinned connection
  stmts,      \* h.stmts: id -> statement{query, handle}
  pc,         \* where the apply worker is
  cur,        \* the event being applied, with its replay-side result Rr
  gate,       \* the directive CheckNeedReplay gave for it
  err,        \* ApplyEvent's err
  nEvents,    \* events taken by the apply worker so far
  nHanded,    \* outcomes passed to AsyncWriteResToFile so far
  \* history of the event being applied
  attempts,   \* calls of h.execute / h.stmtExecute
  lockWaits,  \* attempts answered with 1205
  reconnects, \* quit(true) + handshake performed at the reconnect check
  retries,    \* goto LOOP taken
  calls,      \* calls made to the target server / driver
  onlyLockWaits, \* every failed attempt so far failed with 1205
  rowsAtStart,   \* len(e.Rr.ColValues) when the last attempt started
  lastNet,       \* the target calls of the last step, in order
  cached         \* the ids the applied events say are prepared

  ,
  \* the pipeline of each handler (one handler per connection identity)
  prod,       \* the producer: "open", or where it is in OnClose
  ch,         \* h.ch, the events queued for the apply worker
  chClosed,   \* close(h.ch) was called
  wg,         \* h.wg
  aw,         \* the apply worker (ReplayEvent): its position and its event
  wfch,       \* h.wf.ch, the outcomes queued for the persist worker
  wfClosed,   \* close(h.wf.ch) was called
  wfwg,       \* h.wf.wg
  pw,         \* the persist worker (DoWriteResToFile): its position
  file,       \* h.file is open
  released,   \* OnClose's quit(false) was called
  exited,     \* os.Exit was called
  nAdmitted,  \* events admitted by all producers
  admitted,   \* per handler, the events OnEvent returned for, in order
  applied,    \* per handler, the events DoEvent was called with, in order
  handed,     \* per handler, the outcomes passed to AsyncWriteResToFile
  persisted   \* per handler, the outcomes the persist worker took, each
              \* with whether it was written

  ,
  \* the protocol session of one captured connection (stream.MySQLFSM)
  fsm,        \* the fields of the MySQLFSM
  pkt,        \* the frame of the last Handle call
  nFrames,    \* frames handled so far
  cmdStart,   \* the arrival number of the last frame that started a command
  nDone       \* the calls since that frame that reported a completed command

  ,
  \* one function called by itself
  arg,        \* the function and its arguments
  ret,        \* Nil, or what the call returned
  depth       \* the calls of MarshalJSON that have not returned

  ,
  \* the events file of all handlers (writeEventToFile)
  eventsMap,  \* the package's eventsMap: connection hash -> events
  wev,        \* per handler, where its apply worker is in writeEventToFile
  eventsFile, \* what mysql_events.json holds
  nWrites,    \* calls of writeEventToFile so far
  passed      \* per handler, the events writeEventToFile was called with

sessVars == <<dsn, schema, pool, conn, stmts>>
pipeVars == <<prod, ch, chClosed, wg, aw, wfch, wfClosed, wfwg, pw, file,
              released, exited, nAdmitted, admitted, applied, handed, persisted>>
workVars == <<pc, cur, gate, err, nEvents, nHanded>>
histVars == <<attempts, lockWaits, reconnects, retries, calls, onlyLockWaits,
              rowsAtStart, lastNet, cached>>
\* what a step of the session leaves alone, and what a step of the pipeline does
fsmVars == <<fsm, pkt, nFrames, cmdStart, nDone>>
callVars == <<arg, ret, depth>>
mapVars == <<eventsMap, wev, eventsFile, nWrites, passed>>
outsideSession == <<pipeVars, fsmVars, callVars, mapVars>>
outsidePipe == <<sessVars, workVars, histVars, fsmVars, callVars, mapVars>>
outsideFSM == <<sessVars, workVars, histVars, pipeVars, callVars, mapVars>>
outsideMap == <<sessVars, workVars, histVars, pipeVars, fsmVars, callVars>>
vars == <<sessVars, workVars, histVars, pipeVars, fsmVars, callVars, mapVars>>

\* the handler's session fields as one value
H == [schema |-> schema, pool |-> pool, conn |-> conn, stmts |-> stmts]

\* ------------------------------------------------------------- the events
\* stream.MySQLEvent as ApplyEvent reads it
NewRr == [ErrNO |-> 0, ErrDesc |-> "", SqlStatment |-> "", Values |-> <<>>, ColValues |-> <<>>]
Event(t, id, q, db) ==
  [Type |-> t, StmtID |-> id, Query |-> q, DB |-> db,
   Params |-> IF t = "EventStmtExecute" THEN <<"p1">> ELSE <<>>, Rr |-> NewRr]
AllEvents ==
  {Event("EventQuery", None, q, None) : q \in QueryTexts}
  \cup {Event("EventStmtPrepare", id, q, None) : id \in StmtIDs, q \in QueryTexts}
  \cup {Event("EventStmtExecute", id, None, None) : id \in StmtIDs}
  \cup {Event("EventStmtClose", id, None, None) : id \in StmtIDs}
  \cup {Event("EventHandshake", None, None, db) : db \in Schemas}
  \cup {Event("EventQuit", None, None, None), Event("Other", None, None, None)}

\* ------------------------------------------------- connection and pool
\* The helpers below are the handler's methods as functions of the session
\* fields h and of the answers of the driver; each returns the new fields,
\* the error and the target calls made (net).

\* sql.Open for the schema: the pool is scoped to the schema, or to the base
\* configuration's database when the schema is empty
open(sch, ro) ==
  [pool |-> IF ro = NoErr THEN [db |-> IF sch # "" THEN sch ELSE BaseDB] ELSE Nil,
   err |-> ro, net |-> <<<<"open", sch>>>>]

getConn(h, ro, rc) ==
  LET o == open(h.schema, ro)
      needPool == h.pool = Nil
      h1 == IF needPool THEN [h EXCEPT !.pool = o.pool] ELSE h
      n1 == IF needPool THEN o.net ELSE <<>>
  IN IF needPool /\ o.err # NoErr
       THEN [h |-> h1, conn |-> Nil, err |-> o.err, net |-> n1]
     ELSE IF h1.conn = Nil
       THEN IF rc # NoErr
              THEN [h |-> h1, conn |-> Nil, err |-> rc, net |-> Append(n1, <<"conn", h1.pool.db>>)]
              ELSE LET c == [db |-> h1.pool.db]
                   IN [h |-> [h1 EXCEPT !.conn = c], conn |-> c, err |-> NoErr,
                       net |-> Append(n1, <<"conn", h1.pool.db>>)]
     ELSE [h |-> h1, conn |-> h1.conn, err |-> NoErr, net |-> n1]

\* a handshake that does not record the schema it connected to
handshakeKeepsSchema(h, sch, ro, rc) ==
  LET o == open(sch, ro)
  IN IF o.err # NoErr
       THEN [h |-> h, err |-> o.err, net |-> o.net]
       ELSE LET g == getConn([h EXCEPT !.pool = o.pool], ro, rc)
            IN [h |-> g.h, err |-> g.err, net |-> o.net \o g.net]

handshake(h, sch, ro, rc) ==
  LET o == open(sch, ro)
  IN IF o.err # NoErr
       THEN [h |-> h, err |-> o.err, net |-> o.net]
       ELSE LET g == getConn([h EXCEPT !.pool = o.pool, !.schema = sch], ro, rc)
            IN [h |-> g.h, err |-> g.err, net |-> o.net \o g.net]

\* ------------------------------------------------------ statement cache
EmptyStmts == [i \in {} |-> Nil]
Remove(f, id) == [i \in DOMAIN f \ {id} |-> f[i]]
Put(f, id, v) == [i \in DOMAIN f \cup {id} |-> IF i = id THEN v ELSE f[i]]

\* a *sql.Stmt prepared on the pinned connection; it is usable while that
\* connection is open
Handle(q) == [query |-> q, live |-> TRUE]
\* closing the connection leaves every statement prepared on it unusable
ConnClosed(ss) ==
  [i \in DOMAIN ss |->
     IF ss[i].handle = Nil THEN ss[i] ELSE [ss[i] EXCEPT !.handle.live = FALSE]]

RECURSIVE CloseStmts(_, _)
\* stmt.handle.Close() for every entry of ids that has a handle
CloseStmts(ss, ids) ==
  IF ids = {} THEN <<>>
  ELSE LET id == CHOOSE i \in ids : TRUE
       IN (IF ss[id].handle # Nil THEN <<<<"closeStmt", id>>>> ELSE <<>>)
            \o CloseStmts(ss, ids \ {id})

\* the Close calls quit makes: the statement handles, the connection, the pool
Closes(h) ==
  CloseStmts(h.stmts, DOMAIN h.stmts)
    \o (IF h.conn # Nil THEN <<<<"closeConn", h.conn.db>>>> ELSE <<>>)
    \o (IF h.pool # Nil THEN <<<<"closePool", h.pool.db>>>> ELSE <<>>)

\* a teardown that leaves the pool open and held
quitKeepsPool(h, reconnect) ==
  [h EXCEPT !.stmts = EmptyStmts, !.conn = Nil]

\* a teardown that empties the cache also when reconnecting
quitDropsCache(h, reconnect) ==
  [h EXCEPT !.stmts = EmptyStmts, !.conn = Nil, !.pool = Nil]

quit(h, reconnect) ==
  LET ss == IF reconnect
              THEN [i \in DOMAIN h.stmts |-> [h.stmts[i] EXCEPT !.handle = Nil]]
              ELSE EmptyStmts
  IN [h EXCEPT !.stmts = IF h.conn # Nil THEN ConnClosed(ss) ELSE ss,
               !.conn = Nil, !.pool = Nil]

\* a prepare that removes the previous entry only when it succeeds
stmtPrepareKeepsOld(h, id, query, ro, rc, rp) ==
  LET g == getConn(h, ro, rc)
      n == Append(g.net, <<"prepare", query>>)
  IN IF g.err # NoErr THEN [h |-> g.h, err |-> g.err, net |-> g.net]
     ELSE IF rp # NoErr THEN [h |-> g.h, err |-> rp, net |-> n]
     ELSE [h |-> [g.h EXCEPT !.stmts = Put(g.h.stmts, id, [query |-> query, handle |-> Handle(query)])],
           err |-> NoErr, net |-> n]

stmtPrepare(h, id, query, ro, rc, rp) ==
  LET h1 == [h EXCEPT !.stmts = Remove(h.stmts, id)]
      g == getConn(h1, ro, rc)
      n == Append(g.net, <<"prepare", query>>)
  IN IF g.err # NoErr THEN [h |-> g.h, err |-> g.err, net |-> g.net]
     ELSE IF rp # NoErr THEN [h |-> g.h, err |-> rp, net |-> n]
     ELSE [h |-> [g.h EXCEPT !.stmts = Put(g.h.stmts, id, [query |-> query, handle |-> Handle(query)])],
           err |-> NoErr, net |-> n]

stmtClose(h, id) ==
  IF id \notin DOMAIN h.stmts THEN h ELSE [h EXCEPT !.stmts = Remove(h.stmts, id)]

getStmt(h, id, ro, rc, rp) ==
  IF id \in DOMAIN h.stmts /\ h.stmts[id].handle # Nil
    THEN [h |-> h, handle |-> h.stmts[id].handle, err |-> NoErr, net |-> <<>>]
  ELSE IF id \notin DOMAIN h.stmts
    THEN [h |-> h, handle |-> Nil, err |-> OtherErr, net |-> <<>>]
  ELSE LET g == getConn(h, ro, rc)
           q == h.stmts[id].query
           n == Append(g.net, <<"prepare", q>>)
       IN IF g.err # NoErr THEN [h |-> g.h, handle |-> Nil, err |-> g.err, net |-> g.net]
          ELSE IF rp # NoErr THEN [h |-> g.h, handle |-> Nil, err |-> rp, net |-> n]
          ELSE [h |-> [g.h EXCEPT !.stmts[id].handle = Handle(q)],
                handle |-> Handle(q), err |-> NoErr, net |-> n]

\* ------------------------------------------------------------- the rows
\* stream.ConvertAssignRows: the display string of a column value
Str(v) == <<"str", v>>
\* a NULL column of a recorded row
SqlNull == <<"null">>
Max(S) == CHOOSE m \in S : \A x \in S : x <= m

\* ReadRowValues: NULL columns are kept as nil, a column is dropped when its
\* conversion fails, and the row is appended when err, set by the last
\* column that was converted, is nil
ReadRowValues(z, colValues) ==
  LET conv == {i \in 1..Len(z) : z[i] # ColNull}
      errNil == conv = {} \/ z[Max(conv)] # ColBad
      kept == SelectSeq(z, LAMBDA c : c # ColBad)
      rr == [i \in 1..Len(kept) |-> IF kept[i] = ColNull THEN SqlNull ELSE Str(kept[i])]
  IN IF errNil THEN Append(colValues, rr) ELSE colValues

RECURSIVE ReadRows(_, _)
\* for rows.Next() { h.ReadRowValues(rows, e) }
ReadRows(rows, colValues) ==
  IF rows = <<>> THEN colValues
  ELSE ReadRows(Tail(rows), ReadRowValues(Head(rows), colValues))

execute(h, query, rr, ro, rc, qa) ==
  LET g == getConn(h, ro, rc)
      rr1 == [rr EXCEPT !.SqlStatment = query]
      n == Append(g.net, <<"query", query>>)
  IN IF g.err # NoErr THEN [h |-> g.h, rr |-> rr, err |-> g.err, net |-> g.net]
     ELSE IF qa.err # NoErr THEN [h |-> g.h, rr |-> rr1, err |-> qa.err, net |-> n]
     ELSE [h |-> g.h, rr |-> [rr1 EXCEPT !.ColValues = ReadRows(qa.rows, @)],
           err |-> NoErr, net |-> n]

\* a statement whose connection was closed answers sql.ErrConnDone
stmtExecute(h, id, params, rr, ro, rc, rp, qa) ==
  LET s == getStmt(h, id, ro, rc, rp)
      rr1 == [rr EXCEPT !.SqlStatment = s.handle.query, !.Values = params]
      ans == IF s.handle.live THEN qa ELSE [err |-> Sentinel("sql.ErrConnDone"), rows |-> <<>>]
      n == Append(s.net, <<"exec", s.handle.query>>)
  IN IF s.err # NoErr THEN [h |-> s.h, rr |-> rr, err |-> s.err, net |-> s.net]
     ELSE IF ans.err # NoErr THEN [h |-> s.h, rr |-> rr1, err |-> ans.err, net |-> n]
     ELSE [h |-> s.h, rr |-> [rr1 EXCEPT !.ColValues = ReadRows(ans.rows, @)],
           err |-> NoErr, net |-> n]

\* ------------------------------------------------------ the apply worker
\* the worker holds no event
NoEvent == Event("none", None, None, None)

SetH(h) ==
  /\ schema' = h.schema
  /\ pool' = h.pool
  /\ conn' = h.conn
  /\ stmts' = h.stmts

\* The target's answers are bounded: it answers 1205, and a connection-loss
\* error, a bounded number of times while one event is applied.
MayAnswer(e) ==
  /\ IsLockWait(e) => lockWaits < MaxLockWaits
  /\ IsConnLoss(e) => reconnects < MaxConnLoss

\* The answers that can matter in a step: a call that is not made has no
\* answer (sql.Open is called when there is no pool, pool.Conn when there is
\* no connection, PrepareContext by getStmt when the statement has no handle).
OpenAnswers(h) == IF h.pool = Nil THEN OpenErrs ELSE {NoErr}
ConnAnswers(h) == IF h.conn = Nil THEN ConnErrs ELSE {NoErr}
PrepareAnswers(h, id) ==
  IF id \in DOMAIN h.stmts /\ h.stmts[id].handle = Nil THEN StmtErrs ELSE {NoErr}

\* ===================================================== the protocol session
\* stream.MySQLFSM (stream/mysql.go): Handle is given the frames of one
\* captured connection, in capture order, and rebuilds the commands.

\* A frame (MySQLPacket): its sequence number, whether its length is
\* maxPacketSize (a longer payload continues in the next frame), its
\* direction, its payload and its capture time. The payload is kept as what
\* the decoders read from it: the first byte (k) and the fields behind it.
\* The frames are numbered as they arrive; the number is also the time.
Frame(seq, full, dir, body, n) ==
  [Seq |-> seq, Full |-> full, Dir |-> dir, Data |-> body, n |-> n]

\* client commands
ComQueryB(q) == [k |-> "comQuery", q |-> q]
ComStmtPrepareB(q) == [k |-> "comStmtPrepare", q |-> q]
\* form: how far the head of the payload can be read ("ok": up to and
\* with the null bitmap); bound: the new-params-bound flag; types: the
\* parameter types that follow a flag of 1; nulls: the parameters whose bit
\* is set in the null bitmap; vlen: the number of parameter-value bytes
ComStmtExecuteB(id, form, bound, types, nulls, vlen) ==
  [k |-> "comStmtExecute", id |-> id, form |-> form, bound |-> bound,
   types |-> types, nulls |-> nulls, vlen |-> vlen]
ComStmtCloseB(id, form) == [k |-> "comStmtClose", id |-> id, form |-> form]
ComQuitB == [k |-> "comQuit"]
\* a command byte Handle does not know
ComOtherB == [k |-> "comOther"]
\* a frame of length 0
EmptyB == [k |-> "empty"]
\* the continuation of a payload that began in a frame of maximum length
ContB == [k |-> "cont"]
\* the server's greeting (protocol version 9 or 10, at least 6 bytes)
HandshakeReqB == [k |-> "handshakeReq"]
\* the client's answer to it. form: the field within which the payload ends
\* ("shortFlags", "shortUser", "shortAuth", "shortDb"), or "hugeAuth": the
\* length-encoded length of the auth-response is 2^63 or more (first byte
\* 0xfe, then 8 bytes of which the first is 0x80 or more) and fewer bytes
\* follow
HandshakeRespB(user, db, form) ==
  [k |-> "handshakeResp", user |-> user, db |-> db, form |-> form]
\* server answers
\* form "short": three or four bytes, the payload ends within the two bytes
\* of the status flags; so do the forms of PrepOkB other than "ok"
OkB(form) == [k |-> "ok", form |-> form]
\* form "state": with the marker byte and the 5 characters of the SQL
\* state; "plain": without them; "short": fewer than 4 bytes
ErrB(no, msg, form) == [k |-> "err", no |-> no, msg |-> msg, form |-> form]
PrepOkB(id, np, form) == [k |-> "prepOk", id |-> id, np |-> np, form |-> form]
ColCountB(c) == [k |-> "colcount", c |-> c]
\* form "shortStrings": ends within the length-encoded strings;
\* "shortFixed": ends within the fixed fields behind them
ColDefB(form) == [k |-> "coldef", form |-> form]
EofB == [k |-> "eof"]
RowB(form) == [k |-> "row", form |-> form]

\* the errors of the decoders
ErrLoadBuffer == [t |-> "ErrLoadBuffer"]
ErrMalformPkt == [t |-> "ErrMalformPkt"]
IoEOF == [t |-> "io.EOF"]
ErrColumnCount == [t |-> "column count mismatch"]
\* stream.MySQLError, the error handleErrorPacket returns
StreamMySQLError(no, msg) == [t |-> "stream.MySQLError", Number |-> no, Message |-> msg]

ZeroStmt == [ID |-> 0, Query |-> "", NumParams |-> 0, types |-> <<>>]

\* new(PacketRes) as InitValue fills it
NewPacketRes ==
  [errNo |-> 0, errDesc |-> "", packetnum |-> 0, sqlBeginTime |-> 0,
   sqlEndTime |-> 0, columnNum |-> 0, bRows |-> Nil, tRows |-> Nil,
   readColEnd |-> FALSE, ifReadColEndEofPacket |-> FALSE, ifReadResEnd |-> FALSE]

\* new(textRows) / new(binaryRows): the columns read and the rows read
NewRows == [columns |-> 0, columnValue |-> <<>>, done |-> FALSE]

NewMySQLFSM ==
  [state |-> "Init", changed |-> FALSE, query |-> "", stmt |-> ZeroStmt,
   params |-> <<>>, schema |-> "", username |-> "", stmts |-> EmptyStmts,
   data |-> <<>>, packets |-> <<>>, start |-> 0, count |-> 0, pr |-> Nil,
   panicked |-> FALSE]

\* a run-time panic (index or slice bounds out of range) in a call of
\* Handle: nothing recovers it, the call does not return
Panic(f) == [f EXCEPT !.panicked = TRUE]

\* a session that does not wait for the rest of a fragmented payload
ReadyWithoutLastFrame(f) == Len(f.packets) > 0

Ready(f) ==
  LET n == Len(f.packets) IN n > 0 /\ ~f.packets[n].Full

\* a session that forgets the previous state when it reports changes
setAlwaysChanged(f, to) == [f EXCEPT !.state = to, !.changed = TRUE]

set(f, to) == [f EXCEPT !.state = to, !.changed = (f.state # to)]

setStatusWithNoChange(f, to) == [f EXCEPT !.state = to]

\* a reset that keeps the frames of the previous command
InitValueKeepsPackets(f) ==
  [set(f, "Init") EXCEPT !.pr = NewPacketRes]

InitValue(f) ==
  [set(f, "Init") EXCEPT !.pr = NewPacketRes, !.packets = <<>>]

\* an expected sequence number one further than the successor of the last
nextSeqSkipsOne(f) ==
  LET n == Len(f.packets)
  IN IF n = 0 THEN 0 ELSE (f.packets[n].Seq + 2) % SeqModulus

nextSeq(f) ==
  LET n == Len(f.packets)
  IN IF n = 0 THEN 0 ELSE (f.packets[n].Seq + 1) % SeqModulus

\* load's loop from frame index i (indices from 0 as in the code). The loop
\* goes from one payload's first frame to the next one's: these are i and
\* every later index behind a frame shorter than maxPacketSize. At each it
\* looks for j, the first frame from there on that is shorter than
\* maxPacketSize, returns false when there is none and loads when the
\* index is k.
loadScan(f, i, k) ==
  LET n == Len(f.packets)
      firstShort(x) ==
        LET short == {y \in x..(n - 1) : ~f.packets[y + 1].Full}
        IN IF short = {} THEN n ELSE CHOOSE m \in short : \A y \in short : m <= y
      starts == {x \in i..(n - 1) : x = i \/ ~f.packets[x].Full}
      j == firstShort(k)
  IN IF \E x \in starts : x <= k /\ firstShort(x) = n THEN [ok |-> FALSE, f |-> f]
     ELSE IF k \in starts
       THEN [ok |-> TRUE,
             f |-> [f EXCEPT !.data = SubSeq(f.packets, k + 1, j + 1),
                             !.start = k, !.count = j - k + 1]]
     ELSE [ok |-> FALSE, f |-> f]

\* a load that scans from frame k, wherever the payloads before it end
loadFromK(f, k) == loadScan(f, k, k)

load(f, k) == loadScan(f, 0, k)

assertDir(f, exp) ==
  f.start < Len(f.packets) /\ f.packets[f.start + 1].Dir = exp

\* the first byte of the working buffer
FirstByte(f) == IF f.data = <<>> THEN "none" ELSE f.data[1].Data.k
\* len(fsm.data.Bytes()) = 0
NoBytes(f) == FirstByte(f) \in {"none", "empty"}
\* the payload in the working buffer, as its decoder reads it
Payload(f) == f.data[1].Data

isClientCommand(f, cmd) == assertDir(f, "c2s") /\ FirstByte(f) = cmd

isHandshakeRequest(f) == assertDir(f, "s2c") /\ FirstByte(f) = "handshakeReq"

handleComQueryNoLoad(f) ==
  set([f EXCEPT !.query = Payload(f).q], "ComQuery")

\* a decoder that takes every parameter as a long that is present
parseExecParamsUnchecked(stmt, nulls, types, vlen) ==
  [params |-> [i \in 1..stmt.NumParams |-> "long"], err |-> NoErr]

\* parseExecParams: the values decoded with the types, or an error. A
\* decoded value is written as its type, a null as "nil". A tiny takes 1
\* byte, a long 4; a date takes a length byte and, here, 4 bytes that
\* parseBinaryDate slices without a test: the panic is recovered into an
\* error.
parseExecParams(stmt, nulls, types, vlen) ==
  LET RECURSIVE parse(_, _, _)
      parse(i, pos, acc) ==
        IF i > stmt.NumParams THEN [params |-> acc, err |-> NoErr]
        ELSE IF i \in nulls THEN parse(i + 1, pos, Append(acc, "nil"))
        ELSE IF i > Len(types) THEN [params |-> <<>>, err |-> [t |-> "malformed types"]]
        ELSE IF types[i] = "tiny"
          THEN IF vlen < pos + 1 THEN [params |-> <<>>, err |-> [t |-> "malformed values"]]
               ELSE parse(i + 1, pos + 1, Append(acc, "tiny"))
        ELSE IF types[i] = "long"
          THEN IF vlen < pos + 4 THEN [params |-> <<>>, err |-> [t |-> "malformed values"]]
               ELSE parse(i + 1, pos + 4, Append(acc, "long"))
        ELSE IF types[i] = "date"
          THEN IF vlen < pos + 1 THEN [params |-> <<>>, err |-> [t |-> "malformed values"]]
               ELSE IF vlen < pos + 5 THEN [params |-> <<>>, err |-> [t |-> "malformed packet"]]
               ELSE parse(i + 1, pos + 5, Append(acc, "date"))
        ELSE [params |-> <<>>, err |-> [t |-> "unknown field type"]]
  IN parse(1, 0, <<>>)

\* The integer cases of parseExecParams with the bytes of the values. A
\* type is its name and whether bit 0x80 of its second byte is set; a
\* decoded parameter is a uint64 or an int64, written as its 8 bytes from
\* the lowest.
IntWidth(tp) ==
  IF tp = "tiny" THEN 1 ELSE IF tp = "short" THEN 2 ELSE IF tp = "long" THEN 4 ELSE 8
\* uint64(val): the value's bytes, then zeros
ToUint64(bs) == [kind |-> "uint64", bits |-> [i \in 1..8 |-> IF i <= Len(bs) THEN bs[i] ELSE 0]]
\* int64(int8(val)), int64(int16(val)), int64(int32(val)), int64(val): the
\* value's bytes, then the sign bit repeated
ToInt64(bs) ==
  [kind |-> "int64",
   bits |-> [i \in 1..8 |-> IF i <= Len(bs) THEN bs[i]
                            ELSE IF bs[Len(bs)] >= 128 THEN 255 ELSE 0]]

\* a decoder that takes every integer as signed
parseExecParamsBytesSigned(stmt, nulls, types, values) ==
  [params |-> [i \in 1..stmt.NumParams |->
                 LET pos == IF i = 1 THEN 0 ELSE IntWidth(types[1].tp)
                 IN ToInt64(SubSeq(values, pos + 1, pos + IntWidth(types[i].tp)))],
   err |-> NoErr]

parseExecParamsBytes(stmt, nulls, types, values) ==
  LET RECURSIVE parse(_, _, _)
      parse(i, pos, acc) ==
        IF i > stmt.NumParams THEN [params |-> acc, err |-> NoErr]
        ELSE IF i \in nulls THEN parse(i + 1, pos, Append(acc, Nil))
        ELSE IF i > Len(types) THEN [params |-> <<>>, err |-> [t |-> "malformed types"]]
        ELSE IF types[i].tp \in {"tiny", "short", "long", "longlong"}
          THEN LET w == IntWidth(types[i].tp)
                   val == SubSeq(values, pos + 1, pos + w)
               IN IF Len(values) < pos + w
                    THEN [params |-> <<>>, err |-> [t |-> "malformed values"]]
                    ELSE parse(i + 1, pos + w,
                               Append(acc, IF types[i].unsigned THEN ToUint64(val)
                                           ELSE ToInt64(val)))
        ELSE [params |-> <<>>, err |-> [t |-> "unknown field type"]]
  IN parse(1, 0, <<>>)

handleComStmtExecuteNoLoad(f) ==
  LET b == Payload(f)
  IN IF b.form = "shortId" THEN set(f, "Unknown")
     ELSE IF b.id \notin DOMAIN f.stmts THEN set(f, "Unknown")
     ELSE IF b.form = "shortFlags" THEN set(f, "Unknown")
     ELSE
       LET stmt == f.stmts[b.id]
           \* len(data) behind the null bitmap: flag, types, values
           len == 1 + 2 * Len(b.types) + b.vlen
           stmt1 == IF b.bound THEN [stmt EXCEPT !.types = b.types] ELSE stmt
           f1 == IF b.bound THEN [f EXCEPT !.stmts[b.id] = stmt1] ELSE f
           pe == parseExecParams(stmt1, b.nulls, stmt1.types, b.vlen)
       IN IF stmt.NumParams > 0
            THEN IF b.form = "shortBitmap" THEN set(f, "Unknown")
                 ELSE IF len < 1 + 2 * stmt.NumParams THEN set(f, "Unknown")
                 ELSE IF ~b.bound /\ stmt.types = <<>> THEN set(f, "Unknown")
                 ELSE IF pe.err # NoErr THEN set(f1, "Unknown")
                 ELSE set([f1 EXCEPT !.stmt = stmt1, !.params = pe.params], "ComStmtExecute")
            ELSE set([f EXCEPT !.stmt = stmt, !.params = <<>>], "ComStmtExecute")

\* a close that leaves the statement in the table
handleComStmtCloseKeeps(f) ==
  LET b == Payload(f)
  IN IF b.form = "shortId" THEN set(f, "Unknown")
     ELSE set([f EXCEPT !.stmt = IF b.id \in DOMAIN f.stmts THEN f.stmts[b.id] ELSE ZeroStmt],
              "ComStmtClose")

handleComStmtCloseNoLoad(f) ==
  LET b == Payload(f)
  IN IF b.form = "shortId" THEN set(f, "Unknown")
     ELSE set([f EXCEPT !.stmt = IF b.id \in DOMAIN f.stmts THEN f.stmts[b.id] ELSE ZeroStmt,
                        !.stmts = Remove(f.stmts, b.id)], "ComStmtClose")

handleComStmtPrepareRequestNoLoad(f) ==
  set([f EXCEPT !.stmt = [ZeroStmt EXCEPT !.Query = Payload(f).q]], "ComStmtPrepare0")

handleInitPacket(f) ==
  LET l == load(f, 0)
      g == l.f
  IN IF ~l.ok THEN set(f, "Unknown")
     ELSE IF isClientCommand(g, "comQuery") THEN handleComQueryNoLoad(g)
     ELSE IF isClientCommand(g, "comStmtExecute") THEN handleComStmtExecuteNoLoad(g)
     ELSE IF isClientCommand(g, "comStmtPrepare") THEN handleComStmtPrepareRequestNoLoad(g)
     ELSE IF isClientCommand(g, "comStmtClose") THEN handleComStmtCloseNoLoad(g)
     ELSE IF isClientCommand(g, "comQuit") THEN set(g, "ComQuit")
     ELSE IF isHandshakeRequest(g) THEN set(g, "Handshake0")
     ELSE IF assertDir(g, "c2s") /\ ~NoBytes(g) THEN set(g, "Unknown")
     \* the warning's text is built from fsm.data.Bytes()[0]
     ELSE IF NoBytes(g) THEN Panic(set(g, "Unknown"))
     ELSE set(g, "Unknown")

\* the response to a prepare: an OK (first byte 0) from the server with the
\* statement id, the number of columns and the number of parameters
handleComStmtPrepareResponse(f) ==
  LET l == load(f, 1)
      g == l.f
      b == Payload(g)
  IN IF ~l.ok THEN set(f, "Unknown")
     ELSE IF ~assertDir(g, "s2c") THEN set(g, "Unknown")
     ELSE IF FirstByte(g) \notin {"ok", "prepOk"} THEN set(g, "Unknown")
     ELSE IF FirstByte(g) = "ok" \/ b.form # "ok" THEN set(g, "Unknown")
     ELSE LET s == [g.stmt EXCEPT !.ID = b.id, !.NumParams = b.np]
          IN set([g EXCEPT !.stmt = s, !.stmts = Put(g.stmts, b.id, s)], "ComStmtPrepare1")

\* the client's handshake response: capability flags, user name,
\* auth-response and, with the connect-with-db flag, the schema
handleHandshakeResponse(f) ==
  LET l == load(f, 1)
      g == l.f
      b == Payload(g)
  IN IF ~l.ok THEN set(f, "Unknown")
     ELSE IF ~assertDir(g, "c2s") THEN set(g, "Unknown")
     ELSE IF FirstByte(g) # "handshakeResp" \/ b.form \in {"shortFlags", "shortUser"}
       THEN set(g, "Unknown")
     ELSE IF b.form \in {"shortAuth", "shortDb"}
       THEN set([g EXCEPT !.username = b.user], "Unknown")
     \* readBytesN(data, int(n)): the length is negative as an int, the test
     \* len(data) < n lets it pass and data[:n] is out of range
     ELSE IF b.form = "hugeAuth" THEN Panic([g EXCEPT !.username = b.user])
     ELSE set([g EXCEPT !.username = b.user,
                        !.schema = IF b.db # "" THEN b.db ELSE g.schema], "Handshake1")

\* ------------------------------------------------ reading a captured result
\* The readers return the session and the error.

\* handleOkPacket / handleErrorPacket / the column count of the header
readResultSetHeaderPacket(f) ==
  LET f1 == [f EXCEPT !.pr.packetnum = 1]
      l == load(f1, 1)
      g == [l.f EXCEPT !.pr.packetnum = 2]
      b == Payload(g)
  IN IF ~l.ok THEN [f |-> f1, num |-> 0, err |-> ErrLoadBuffer]
     \* data[0] of no bytes
     ELSE IF NoBytes(g) THEN [f |-> Panic(g), num |-> 0, err |-> NoErr]
     \* handleOkPacket slices the status flags without a test of the length:
     \* behind a short payload the slice lies within the capacity the buffer
     \* has since the request was loaded, and the flags are read from the
     \* bytes an earlier payload left there
     ELSE IF FirstByte(g) \in {"ok", "prepOk"} THEN [f |-> g, num |-> 0, err |-> NoErr]
     \* handleErrorPacket reads data[1:3] and data[3] without a test
     ELSE IF FirstByte(g) = "err"
       THEN IF b.form = "short" THEN [f |-> Panic(g), num |-> 0, err |-> NoErr]
            ELSE [f |-> g, num |-> 0, err |-> StreamMySQLError(b.no, b.msg)]
     ELSE IF FirstByte(g) = "colcount" THEN [f |-> g, num |-> b.c, err |-> NoErr]
     ELSE [f |-> g, num |-> 0, err |-> ErrMalformPkt]

\* readColumns(1): one column definition
readColumns(f) ==
  LET l == load(f, f.pr.packetnum)
      g == [l.f EXCEPT !.pr.packetnum = @ + 1]
  IN IF ~l.ok THEN [f |-> f, err |-> ErrLoadBuffer]
     ELSE IF NoBytes(g) THEN [f |-> Panic(g), err |-> NoErr]
     ELSE IF FirstByte(g) = "eof" THEN [f |-> g, err |-> ErrColumnCount]
     ELSE IF FirstByte(g) = "coldef" /\ Payload(g).form = "ok" THEN [f |-> g, err |-> NoErr]
     \* the fixed fields are read without a test of the length
     ELSE IF FirstByte(g) = "coldef" /\ Payload(g).form = "shortFixed"
       THEN [f |-> Panic(g), err |-> NoErr]
     \* the strings are skipped with a test; any other payload is read as
     \* a definition whose strings do not fit
     ELSE [f |-> g, err |-> ErrMalformPkt]

\* textRows.Next / binaryRows.Next: the next packet is an EOF (the result is
\* done), an ERR, or a row
rowsNext(f, rows) ==
  LET l == load(f, f.pr.packetnum)
      g == [l.f EXCEPT !.pr.packetnum = @ + 1]
      b == Payload(g)
  IN IF ~l.ok THEN [f |-> f, rows |-> rows, err |-> ErrLoadBuffer]
     ELSE IF FirstByte(g) = "eof"
       THEN [f |-> g, rows |-> [rows EXCEPT !.done = TRUE], err |-> IoEOF]
     ELSE IF FirstByte(g) = "err"
       THEN [f |-> g, rows |-> rows, err |-> StreamMySQLError(b.no, b.msg)]
     ELSE IF FirstByte(g) = "row" /\ b.form = "ok"
       THEN [f |-> g, rows |-> [rows EXCEPT !.columnValue = Append(@, <<"v">>)],
             err |-> NoErr]
     ELSE [f |-> g, rows |-> rows, err |-> ErrMalformPkt]

\* a reader that takes the EOF behind the column definitions as a row packet
skipColumnsEOFNever(f) == [f |-> load(f, f.pr.packetnum).f, skipped |-> FALSE]

\* the check for the EOF packet that follows the column definitions
skipColumnsEOF(f) ==
  LET l == load(f, f.pr.packetnum)
      g == l.f
  IN IF l.ok /\ NoBytes(g) THEN [f |-> Panic(g), skipped |-> FALSE]
     ELSE IF l.ok /\ FirstByte(g) = "eof" /\ ~g.pr.ifReadColEndEofPacket
       THEN [f |-> [g EXCEPT !.pr.packetnum = @ + 1, !.pr.ifReadColEndEofPacket = TRUE],
             skipped |-> TRUE]
       ELSE [f |-> g, skipped |-> FALSE]

\* the error fields of the captured result when the header cannot be read:
\* the text reader asserts the error to stream.MySQLError
HeaderFault(e) ==
  IF e.t = "stream.MySQLError" THEN [errNo |-> e.Number, errDesc |-> e.Message]
  ELSE [errNo |-> NotMySQLError, errDesc |-> "exec sql fail and coverted to mysql errorstruct err"]

\* the binary reader asserts it to the driver's mysql.MySQLError, which no
\* error of this package is
HeaderFaultBinary(e) ==
  [errNo |-> NotMySQLError, errDesc |-> "exec sql fail and coverted to mysql errorstruct err"]

handleReadSQLResult(f) ==
  IF f.pr.columnNum = 0
    THEN LET h == readResultSetHeaderPacket(f)
             g == [h.f EXCEPT !.pr.columnNum = h.num]
         IN IF h.f.panicked THEN [f |-> h.f, err |-> NoErr]
            ELSE IF h.err # NoErr
              THEN [f |-> [g EXCEPT !.pr.ifReadResEnd = TRUE,
                                    !.pr.errNo = HeaderFault(h.err).errNo,
                                    !.pr.errDesc = HeaderFault(h.err).errDesc],
                    err |-> h.err]
              ELSE [f |-> IF h.num = 0 THEN [g EXCEPT !.pr.ifReadResEnd = TRUE] ELSE g,
                    err |-> NoErr]
    ELSE LET f1 == IF f.pr.tRows = Nil THEN [f EXCEPT !.pr.tRows = NewRows] ELSE f
         IN IF ~f1.pr.readColEnd
              THEN LET c == readColumns(f1)
                       g == [c.f EXCEPT !.pr.tRows.columns = @ + 1]
                   IN IF c.f.panicked THEN [f |-> c.f, err |-> NoErr]
                      ELSE IF c.err # NoErr THEN [f |-> c.f, err |-> c.err]
                      ELSE [f |-> IF g.pr.tRows.columns = g.pr.columnNum
                                    THEN [g EXCEPT !.pr.readColEnd = TRUE] ELSE g,
                            err |-> NoErr]
              ELSE LET s == skipColumnsEOF(f1)
                       r == rowsNext(s.f, s.f.pr.tRows)
                   IN IF s.skipped \/ s.f.panicked THEN [f |-> s.f, err |-> NoErr]
                      ELSE IF s.f.pr.columnNum = s.f.pr.tRows.columns /\ ~s.f.pr.tRows.done
                        THEN [f |-> [r.f EXCEPT !.pr.tRows = r.rows],
                              err |-> IF r.err = IoEOF THEN NoErr ELSE r.err]
                      ELSE [f |-> s.f, err |-> NoErr]

handleReadPrepareExecResult(f) ==
  IF f.pr.columnNum = 0
    THEN LET h == readResultSetHeaderPacket(f)
             g == [h.f EXCEPT !.pr.columnNum = h.num]
         IN IF h.f.panicked THEN [f |-> h.f, err |-> NoErr]
            ELSE IF h.err # NoErr
              THEN [f |-> [g EXCEPT !.pr.ifReadResEnd = TRUE,
                                    !.pr.errNo = HeaderFaultBinary(h.err).errNo,
                                    !.pr.errDesc = HeaderFaultBinary(h.err).errDesc],
                    err |-> h.err]
              ELSE [f |-> IF h.num = 0 THEN [g EXCEPT !.pr.ifReadResEnd = TRUE] ELSE g,
                    err |-> NoErr]
    ELSE LET f1 == IF f.pr.bRows = Nil THEN [f EXCEPT !.pr.bRows = NewRows] ELSE f
         IN IF ~f1.pr.readColEnd
              THEN LET c == readColumns(f1)
                       g == [c.f EXCEPT !.pr.bRows.columns = @ + 1]
                   IN IF c.f.panicked THEN [f |-> c.f, err |-> NoErr]
                      ELSE IF c.err # NoErr
                        THEN [f |-> [c.f EXCEPT !.pr.readColEnd = TRUE], err |-> c.err]
                      ELSE [f |-> IF g.pr.bRows.columns = g.pr.columnNum
                                    THEN [g EXCEPT !.pr.readColEnd = TRUE] ELSE g,
                            err |-> NoErr]
              ELSE LET s == skipColumnsEOF(f1)
                       r == rowsNext(s.f, s.f.pr.bRows)
                       \* on a row error the previous packet is loaded for the log
                       again == load(r.f, r.f.pr.packetnum - 1).f
                   IN IF s.skipped \/ s.f.panicked THEN [f |-> s.f, err |-> NoErr]
                      ELSE IF s.f.pr.columnNum = s.f.pr.bRows.columns /\ ~s.f.pr.bRows.done
                        THEN IF r.err \in {NoErr, IoEOF}
                               THEN [f |-> [r.f EXCEPT !.pr.bRows = r.rows], err |-> NoErr]
                               ELSE [f |-> [again EXCEPT !.pr.bRows = [r.rows EXCEPT !.done = TRUE]],
                                     err |-> r.err]
                      ELSE [f |-> s.f, err |-> NoErr]

\* the end of Handle's reading branches: an error or a finished row set ends
\* the result, and the end is reported as a change of state
endOfResult(f, r, binary, done, p) ==
  LET g == IF r.err # NoErr THEN [r.f EXCEPT !.pr.ifReadResEnd = TRUE] ELSE r.f
      rows == IF binary THEN g.pr.bRows ELSE g.pr.tRows
      g1 == IF rows # Nil /\ rows.done THEN [g EXCEPT !.pr.ifReadResEnd = TRUE] ELSE g
  IN IF r.f.panicked THEN r.f
     ELSE IF g1.pr.ifReadResEnd
       THEN [set(g1, done) EXCEPT !.pr.sqlEndTime = p.n]
       ELSE g1

\* Handle after the frame was buffered
dispatch(f, p) ==
  IF ~Ready(f) THEN f
  ELSE IF f.state = "Init" THEN handleInitPacket(f)
  ELSE IF f.state = "ComStmtPrepare0" THEN handleComStmtPrepareResponse(f)
  ELSE IF f.state = "Handshake0" THEN handleHandshakeResponse(f)
  ELSE IF f.state \in {"ComQuery", "ComQuery1"}
    THEN LET f1 == setStatusWithNoChange(f, "ComQuery1")
         IN endOfResult(f1, handleReadSQLResult(f1), FALSE, "ComQuery2", p)
  ELSE IF f.state \in {"ComStmtExecute", "ComStmtExecute1"}
    THEN LET f1 == setStatusWithNoChange(f, "ComStmtExecute1")
         IN endOfResult(f1, handleReadPrepareExecResult(f1), TRUE, "ComStmtExecute2", p)
  ELSE f

\* the states in which a command is complete and its event is produced
Completion ==
  {"ComQuery2", "ComStmtExecute2", "ComStmtPrepare1", "Handshake1",
   "ComStmtClose", "ComQuit"}

\* a Handle that takes every frame with sequence number 0 as a start
StartsCommandOnSeqZero(f, p) == p.Seq = 0

\* whether Handle takes the frame as the start of a new command
StartsCommand(f, p) ==
  p.Seq = 0 /\ f.state \notin {"ComQuery1", "ComStmtExecute1"}

\* a Handle that goes on after COM_QUIT
HandleAfterQuit(f0, p) ==
  LET f == [f0 EXCEPT !.changed = FALSE]
  IN IF StartsCommand(f, p)
       THEN dispatch([InitValue(f) EXCEPT !.pr.sqlBeginTime = p.n, !.packets = Append(@, p)], p)
     ELSE IF nextSeq(f) = p.Seq
       THEN dispatch([f EXCEPT !.packets = Append(@, p)], p)
     ELSE setStatusWithNoChange(f, "SkipPacket")

MySQLFSMHandle(f0, p) ==
  LET f == [f0 EXCEPT !.changed = FALSE]
  IN IF f.state = "ComQuit" THEN f
     ELSE IF StartsCommand(f, p)
       THEN dispatch([InitValue(f) EXCEPT !.pr.sqlBeginTime = p.n, !.packets = Append(@, p)], p)
     ELSE IF nextSeq(f) = p.Seq
       THEN dispatch([f EXCEPT !.packets = Append(@, p)], p)
     ELSE setStatusWithNoChange(f, "SkipPacket")

\* no function is called by itself
NoCall == arg = Nil /\ ret = Nil /\ depth = 0

InitFSM ==
  /\ fsm = NewMySQLFSM
  /\ pkt = Nil
  /\ nFrames = 0
  /\ cmdStart = 0
  /\ nDone = 0
  /\ NoCall

InitSession(dsns) ==
  /\ dsn \in dsns
  /\ schema = ""
  /\ pool = Nil
  /\ conn = Nil
  /\ stmts = EmptyStmts
  /\ pc = "idle"
  /\ cur = NoEvent
  /\ gate = "none"
  /\ err = NoErr
  /\ nEvents = 0
  /\ nHanded = 0
  /\ attempts = 0
  /\ lockWaits = 0
  /\ reconnects = 0
  /\ retries = 0
  /\ calls = 0
  /\ onlyLockWaits = TRUE
  /\ rowsAtStart = 0
  /\ lastNet = <<>>
  /\ cached = {}

\* the connection identities, one ReplayEventHandler each
Handlers == {"c1", "c2"}

InitPipe ==
  /\ prod = [h \in Handlers |-> "open"]
  /\ ch = [h \in Handlers |-> <<>>]
  /\ chClosed = [h \in Handlers |-> FALSE]
  /\ wg = [h \in Handlers |-> 0]
  /\ aw = [h \in Handlers |-> [at |-> "none"]]
  /\ wfch = [h \in Handlers |-> <<>>]
  /\ wfClosed = [h \in Handlers |-> FALSE]
  /\ wfwg = [h \in Handlers |-> 0]
  /\ pw = [h \in Handlers |-> "none"]
  /\ file = [h \in Handlers |-> FALSE]
  /\ released = [h \in Handlers |-> FALSE]
  /\ exited = FALSE
  /\ nAdmitted = 0
  /\ admitted = [h \in Handlers |-> <<>>]
  /\ applied = [h \in Handlers |-> <<>>]
  /\ handed = [h \in Handlers |-> <<>>]
  /\ persisted = [h \in Handlers |-> <<>>]
  /\ eventsMap = <<>>
  /\ wev = [h \in Handlers |-> [at |-> "idle"]]
  /\ eventsFile = Nil
  /\ nWrites = 0
  /\ passed = [h \in Handlers |-> <<>>]

Init == InitSession(BOOLEAN) /\ InitPipe /\ InitFSM

\* a gate that applies whatever is not to be skipped, logged events included
NeedApplyUnlessSkipped(e, d) == d # "NotWriteLog"

\* DoEvent's decision: Prepare and Close events go to ReplayEventAndWriteRes
\* before CheckNeedReplay is asked; any other event goes there only when the
\* directive for its timestamp is NeedReplaySQL
NeedApply(e, d) ==
  \/ e.Type \in {"EventStmtPrepare", "EventStmtClose"}
  \/ d = "NeedReplaySQL"

\* a test that never skips the apply
SkipApplyNever(d) == FALSE

\* ApplyEvent's first test: len(h.cfg.Dsn) == 0 returns nil at once
SkipApply(d) == ~d

\* DoEvent up to the call of ApplyEvent; d is the directive CheckNeedReplay
\* has for the event's timestamp. An event that is not applied is dropped
\* (and logged when the directive is NeedWriteLog).
DoEvent(e, d) ==
  /\ pc = "idle"
  /\ nEvents < MaxEvents
  /\ nEvents' = nEvents + 1
  /\ attempts' = 0 /\ lockWaits' = 0 /\ reconnects' = 0 /\ retries' = 0
  /\ calls' = 0 /\ onlyLockWaits' = TRUE /\ rowsAtStart' = 0 /\ lastNet' = <<>>
  /\ err' = NoErr
  /\ gate' = d
  /\ IF NeedApply(e, d)
       THEN /\ cur' = [e EXCEPT !.Rr = NewRr]
            /\ pc' = IF SkipApply(dsn) THEN "ret" ELSE "LOOP"
       ELSE /\ cur' = e
            /\ pc' = "dropped"
  /\ UNCHANGED <<sessVars, nHanded, cached>>
  /\ UNCHANGED outsideSession

Net(n) ==
  /\ lastNet' = n
  /\ calls' = calls + Len(n)

\* a case that goes to the attempt with a row left in the list
ApplyQueryStaleRow ==
  /\ pc = "LOOP" /\ cur.Type = "EventQuery"
  /\ cur' = [cur EXCEPT !.Rr.ColValues = <<<<Str("a")>>>>]
  /\ pc' = "RETRYCOMQUERY"
  /\ Net(<<>>)
  /\ UNCHANGED <<sessVars, gate, err, nEvents, nHanded, attempts, lockWaits,
                 reconnects, retries, onlyLockWaits, rowsAtStart, cached>>
  /\ UNCHANGED outsideSession

\* case util.EventQuery, up to the label RETRYCOMQUERY
ApplyQuery ==
  /\ pc = "LOOP" /\ cur.Type = "EventQuery"
  /\ cur' = [cur EXCEPT !.Rr.ColValues = <<>>]
  /\ pc' = "RETRYCOMQUERY"
  /\ Net(<<>>)
  /\ UNCHANGED <<sessVars, gate, err, nEvents, nHanded, attempts, lockWaits,
                 reconnects, retries, onlyLockWaits, rowsAtStart, cached>>
  /\ UNCHANGED outsideSession

\* a retry rule that tests the wrong error number (1213, deadlock)
RetryLockWaitWrongCode(e) == IsMySQLError(e) /\ e.Number = 1213

\* a retry rule that gives up after the first retry
RetryLockWaitCapped(e) == IsLockWait(e) /\ lockWaits < 1

\* the attempt is repeated when err is a *mysql.MySQLError with Number 1205
RetryLockWait(e) == IsMySQLError(e) /\ e.Number = LockWaitTimeout

\* what follows an attempt: 1205 clears the rows and repeats the attempt,
\* anything else leaves the switch
AfterAttempt(r, label) ==
  /\ SetH(r.h)
  /\ err' = r.err
  /\ attempts' = attempts + 1
  /\ rowsAtStart' = Len(cur.Rr.ColValues)
  /\ Net(r.net)
  /\ onlyLockWaits' = (onlyLockWaits /\ (r.err = NoErr \/ IsLockWait(r.err)))
  /\ IF RetryLockWait(r.err)
       THEN /\ cur' = [cur EXCEPT !.Rr = [r.rr EXCEPT !.ColValues = <<>>]]
            /\ lockWaits' = lockWaits + 1
            /\ pc' = label
       ELSE /\ cur' = [cur EXCEPT !.Rr = r.rr]
            /\ lockWaits' = lockWaits
            /\ pc' = "after"
  /\ UNCHANGED <<dsn, gate, nEvents, nHanded, reconnects, retries, cached>>
  /\ UNCHANGED outsideSession

\* RETRYCOMQUERY: one call of h.execute
RetryComQuery ==
  /\ pc = "RETRYCOMQUERY"
  /\ \E ro \in OpenAnswers(H), rc \in ConnAnswers(H), qa \in QueryAnswers :
       LET r == execute(H, cur.Query, cur.Rr, ro, rc, qa)
       IN /\ MayAnswer(r.err)
          /\ AfterAttempt(r, "RETRYCOMQUERY")

\* case util.EventStmtPrepare
ApplyStmtPrepare ==
  /\ pc = "LOOP" /\ cur.Type = "EventStmtPrepare"
  /\ \E ro \in OpenAnswers(H), rc \in ConnAnswers(H), rp \in StmtErrs :
       LET r == stmtPrepare(H, cur.StmtID, cur.Query, ro, rc, rp)
       IN /\ IsConnLoss(r.err) => reconnects < MaxConnLoss
          /\ SetH(r.h)
          /\ err' = r.err
          /\ cur' = IF r.err # NoErr /\ ~IsMySQLError(r.err)
                      THEN [cur EXCEPT !.Rr.ErrNO = NotMySQLError,
                                       !.Rr.ErrDesc = "exec sql fail and covert  to mysql error struct err"]
                      ELSE cur
          /\ cached' = IF r.err = NoErr THEN cached \cup {cur.StmtID}
                       ELSE cached \ {cur.StmtID}
          /\ Net(r.net)
  /\ pc' = "after"
  /\ UNCHANGED <<dsn, gate, nEvents, nHanded, attempts, lockWaits, reconnects,
                 retries, onlyLockWaits, rowsAtStart>>
  /\ UNCHANGED outsideSession

\* a lookup that leaves the check to getStmt
StmtKnownAlways(h, id) == TRUE

\* _, ok := h.stmts[e.StmtID]
StmtKnown(h, id) == id \in DOMAIN h.stmts

\* case util.EventStmtExecute, up to the label RETRYCOMSTMTEXECUTE; an id
\* that is not cached returns the local error at once
ApplyStmtExecute ==
  /\ pc = "LOOP" /\ cur.Type = "EventStmtExecute"
  /\ IF StmtKnown(H, cur.StmtID)
       THEN /\ cur' = [cur EXCEPT !.Rr.ColValues = <<>>]
            /\ err' = err
            /\ pc' = "RETRYCOMSTMTEXECUTE"
       ELSE /\ cur' = cur
            /\ err' = MySQLError(StmtNotExist, "is not exist , maybe prepare fail")
            /\ pc' = "ret"
  /\ Net(<<>>)
  /\ UNCHANGED <<sessVars, gate, nEvents, nHanded, attempts, lockWaits,
                 reconnects, retries, onlyLockWaits, rowsAtStart, cached>>
  /\ UNCHANGED outsideSession

\* RETRYCOMSTMTEXECUTE: one call of h.stmtExecute
RetryComStmtExecute ==
  /\ pc = "RETRYCOMSTMTEXECUTE"
  /\ \E ro \in OpenAnswers(H), rc \in ConnAnswers(H),
        rp \in PrepareAnswers(H, cur.StmtID), qa \in QueryAnswers :
       LET r == stmtExecute(H, cur.StmtID, cur.Params, cur.Rr, ro, rc, rp, qa)
       IN /\ MayAnswer(r.err)
          /\ AfterAttempt(r, "RETRYCOMSTMTEXECUTE")

\* case util.EventStmtClose
ApplyStmtClose ==
  /\ pc = "LOOP" /\ cur.Type = "EventStmtClose"
  /\ SetH(stmtClose(H, cur.StmtID))
  /\ cached' = cached \ {cur.StmtID}
  /\ pc' = "after"
  /\ Net(<<>>)
  /\ UNCHANGED <<dsn, cur, gate, err, nEvents, nHanded, attempts, lockWaits,
                 reconnects, retries, onlyLockWaits, rowsAtStart>>
  /\ UNCHANGED outsideSession

\* case util.EventHandshake
ApplyHandshake ==
  /\ pc = "LOOP" /\ cur.Type = "EventHandshake"
  /\ \E ro \in OpenErrs, rc \in ConnErrs :
       LET r == handshake(quit(H, FALSE), cur.DB, ro, rc)
       IN /\ IsConnLoss(r.err) => reconnects < MaxConnLoss
          /\ SetH(r.h)
          /\ err' = r.err
          /\ Net(Closes(H) \o r.net)
  /\ cached' = {}
  /\ pc' = "after"
  /\ UNCHANGED <<dsn, cur, gate, nEvents, nHanded, attempts, lockWaits,
                 reconnects, retries, onlyLockWaits, rowsAtStart>>
  /\ UNCHANGED outsideSession

\* case util.EventQuit
ApplyQuit ==
  /\ pc = "LOOP" /\ cur.Type = "EventQuit"
  /\ SetH(quit(H, FALSE))
  /\ cached' = {}
  /\ pc' = "after"
  /\ Net(Closes(H))
  /\ UNCHANGED <<dsn, cur, gate, err, nEvents, nHanded, attempts, lockWaits,
                 reconnects, retries, onlyLockWaits, rowsAtStart>>
  /\ UNCHANGED outsideSession

\* default: an unknown event is logged
ApplyUnknown ==
  /\ pc = "LOOP" /\ cur.Type = "Other"
  /\ pc' = "after"
  /\ Net(<<>>)
  /\ UNCHANGED <<sessVars, cur, gate, err, nEvents, nHanded, attempts, lockWaits,
                 reconnects, retries, onlyLockWaits, rowsAtStart, cached>>
  /\ UNCHANGED outsideSession

\* the decision after the switch: what ApplyEvent does with err
Reconnect(e) == e # NoErr /\ IsConnLoss(e)

\* after the switch: a connection-loss error tears the session down,
\* reconnects with h.schema and, when that succeeds, goes to LOOP again
AfterSwitch ==
  /\ pc = "after"
  /\ IF Reconnect(err)
       THEN \E ro \in OpenErrs, rc \in ConnErrs :
              LET r == handshake(quit(H, TRUE), schema, ro, rc)
              IN /\ SetH(r.h)
                 /\ err' = r.err
                 /\ Net(Closes(H) \o r.net)
                 /\ reconnects' = reconnects + 1
                 /\ IF r.err # NoErr
                      THEN pc' = "ret" /\ retries' = retries
                      ELSE pc' = "LOOP" /\ retries' = retries + 1
       ELSE /\ pc' = "ret"
            /\ Net(<<>>)
            /\ UNCHANGED <<sessVars, err, reconnects, retries>>
  /\ UNCHANGED <<dsn, cur, gate, nEvents, nHanded, attempts, lockWaits,
                 onlyLockWaits, rowsAtStart, cached>>
  /\ UNCHANGED outsideSession

\* a recording that keeps no server error number
RecordedSentinelOnly(rr, e) ==
  IF e = NoErr THEN rr
  ELSE [rr EXCEPT !.ErrNO = NotMySQLError,
                  !.ErrDesc = "Failed to execute SQL and failed to convert to mysql error"]

\* the replay-side error fields ReplayEventAndWriteRes records for err
Recorded(rr, e) ==
  IF e = NoErr THEN rr
  ELSE IF IsMySQLError(e)
    THEN [rr EXCEPT !.ErrNO = e.Number, !.ErrDesc = e.Message]
  ELSE [rr EXCEPT !.ErrNO = NotMySQLError,
                  !.ErrDesc = "Failed to execute SQL and failed to convert to mysql error"]

\* ReplayEventAndWriteRes after ApplyEvent returned: the error is recorded
\* and the event is passed to AsyncWriteResToFile
ReplayEventAndWriteRes ==
  /\ pc = "ret"
  /\ cur' = [cur EXCEPT !.Rr = Recorded(cur.Rr, err)]
  /\ nHanded' = nHanded + 1
  /\ pc' = "handed"
  /\ UNCHANGED <<sessVars, gate, err, nEvents, histVars>>
  /\ UNCHANGED outsideSession

\* DoEvent returned: the worker's loop goes on to the next event
NextEvent ==
  /\ pc \in {"handed", "dropped"}
  /\ pc' = "idle"
  /\ cur' = NoEvent
  /\ gate' = "none"
  /\ err' = NoErr
  /\ UNCHANGED <<sessVars, nEvents, nHanded, histVars>>
  /\ UNCHANGED outsideSession

Next ==
  \/ \E e \in AllEvents, d \in Directives : DoEvent(e, d)
  \/ ApplyQuery
  \/ RetryComQuery
  \/ ApplyStmtPrepare
  \/ ApplyStmtExecute
  \/ RetryComStmtExecute
  \/ ApplyStmtClose
  \/ ApplyHandshake
  \/ ApplyQuit
  \/ ApplyUnknown
  \/ AfterSwitch
  \/ ReplayEventAndWriteRes
  \/ NextEvent

Spec == Init /\ [][Next]_vars

\* ------------------------------------------------------------ the pipeline
\* An event of the pipeline: its number, and whether DoEvent passes it on to
\* ReplayEventAndWriteRes (a Prepare or Close event, or one that
\* CheckNeedReplay directs to replay) or drops it (skip, log only).
PipeEvents == [id : 1..MaxAdmit, replay : BOOLEAN]

\* the handler whose channel OnEvent of handler h sends on (h.ch)
QueueOfShared(h) == "c1"
QueueOf(h) == h

\* OnEvent: the first call starts the apply worker; the event is sent on
\* h.ch, which blocks while the channel is full
OnEvent(h, e) ==
  /\ ~exited
  /\ prod[h] = "open"
  /\ nAdmitted < MaxAdmit
  /\ e.id = nAdmitted + 1
  /\ Len(ch[QueueOf(h)]) < ChanCap
  /\ IF aw[h].at = "none"
       THEN /\ wg' = [wg EXCEPT ![h] = @ + 1]
            /\ aw' = [aw EXCEPT ![h] = [at |-> "recv"]]
       ELSE UNCHANGED <<wg, aw>>
  /\ ch' = [ch EXCEPT ![QueueOf(h)] = Append(@, e)]
  /\ nAdmitted' = nAdmitted + 1
  /\ admitted' = [admitted EXCEPT ![h] = Append(@, e.id)]
  /\ UNCHANGED <<prod, chClosed, wfch, wfClosed, wfwg, pw, file, released,
                 exited, applied, handed, persisted>>
  /\ UNCHANGED outsidePipe

\* ReplayEvent, an event received: DoEvent is called with it; an event that
\* is replayed reaches AsyncWriteResToFile, whose first call starts the
\* persist worker, and waits there to be sent
ReplayEventRecv(h) ==
  /\ ~exited
  /\ aw[h].at = "recv"
  /\ ch[h] # <<>>
  /\ LET e == Head(ch[h])
     IN /\ ch' = [ch EXCEPT ![h] = Tail(@)]
        /\ applied' = [applied EXCEPT ![h] = Append(@, e.id)]
        /\ IF e.replay
             THEN /\ aw' = [aw EXCEPT ![h] = [at |-> "send", e |-> e]]
                  /\ handed' = [handed EXCEPT ![h] = Append(@, e.id)]
                  /\ IF pw[h] = "none"
                       THEN /\ wfwg' = [wfwg EXCEPT ![h] = @ + 1]
                            /\ pw' = [pw EXCEPT ![h] = "start"]
                       ELSE UNCHANGED <<wfwg, pw>>
             ELSE UNCHANGED <<aw, handed, wfwg, pw>>
  /\ UNCHANGED <<prod, chClosed, wg, wfch, wfClosed, file, released, exited,
                 nAdmitted, admitted, persisted>>
  /\ UNCHANGED outsidePipe

\* a send that puts the outcome ahead of the queued ones
SendFirst(q, e) == <<e>> \o q

\* h.wf.ch <- e: the channel is a queue, the outcome goes to its end
Send(q, e) == Append(q, e)

\* AsyncWriteResToFile: h.wf.ch <- e, which blocks while the channel is full
AsyncWriteResToFile(h) ==
  /\ ~exited
  /\ aw[h].at = "send"
  /\ ~wfClosed[h]
  /\ Len(wfch[h]) < ChanCap
  /\ wfch' = [wfch EXCEPT ![h] = Send(@, aw[h].e)]
  /\ aw' = [aw EXCEPT ![h] = [at |-> "recv"]]
  /\ UNCHANGED <<prod, ch, chClosed, wg, wfClosed, wfwg, pw, file, released,
                 exited, nAdmitted, admitted, applied, handed, persisted>>
  /\ UNCHANGED outsidePipe

\* ReplayEvent, h.ch closed and drained: wg.Done and the worker ends
ReplayEventEnd(h) ==
  /\ ~exited
  /\ aw[h].at = "recv"
  /\ ch[h] = <<>> /\ chClosed[h]
  /\ wg' = [wg EXCEPT ![h] = @ - 1]
  /\ aw' = [aw EXCEPT ![h] = [at |-> "done"]]
  /\ UNCHANGED <<prod, ch, chClosed, wfch, wfClosed, wfwg, pw, file, released,
                 exited, nAdmitted, admitted, applied, handed, persisted>>
  /\ UNCHANGED outsidePipe

\* DoWriteResToFile, its start: the first file is opened; when that fails
\* the worker calls wg.Done and returns
DoWriteResToFileStart(h, opened) ==
  /\ ~exited
  /\ pw[h] = "start"
  /\ IF file[h] \/ opened
       THEN /\ file' = [file EXCEPT ![h] = TRUE]
            /\ pw' = [pw EXCEPT ![h] = "recv"]
            /\ UNCHANGED wfwg
       ELSE /\ pw' = [pw EXCEPT ![h] = "returned"]
            /\ wfwg' = [wfwg EXCEPT ![h] = @ - 1]
            /\ UNCHANGED file
  /\ UNCHANGED <<prod, ch, chClosed, wg, aw, wfch, wfClosed, released, exited,
                 nAdmitted, admitted, applied, handed, persisted>>
  /\ UNCHANGED outsidePipe

\* DoWriteResToFile, an outcome received: it is written (which may fail and
\* is then only logged); when the file is to be changed it is closed and the
\* next one opened, and the process exits when that open fails
DoWriteResToFileRecv(h, written, change, opened) ==
  /\ ~exited
  /\ pw[h] = "recv"
  /\ wfch[h] # <<>>
  /\ wfch' = [wfch EXCEPT ![h] = Tail(@)]
  /\ persisted' = [persisted EXCEPT ![h] = Append(@, [id |-> Head(wfch[h]).id, written |-> written])]
  /\ IF change /\ ~opened
       THEN /\ exited' = TRUE
            /\ file' = [file EXCEPT ![h] = FALSE]
       ELSE UNCHANGED <<exited, file>>
  /\ UNCHANGED <<prod, ch, chClosed, wg, aw, wfClosed, wfwg, pw, released,
                 nAdmitted, admitted, applied, handed>>
  /\ UNCHANGED outsidePipe

\* DoWriteResToFile, h.wf.ch closed and drained: the file is closed and
\* stored, wg.Done, and the worker ends
DoWriteResToFileEnd(h) ==
  /\ ~exited
  /\ pw[h] = "recv"
  /\ wfch[h] = <<>> /\ wfClosed[h]
  /\ file' = [file EXCEPT ![h] = FALSE]
  /\ wfwg' = [wfwg EXCEPT ![h] = @ - 1]
  /\ pw' = [pw EXCEPT ![h] = "done"]
  /\ UNCHANGED <<prod, ch, chClosed, wg, aw, wfch, wfClosed, released, exited,
                 nAdmitted, admitted, applied, handed, persisted>>
  /\ UNCHANGED outsidePipe

\* OnClose: close(h.ch)
OnCloseBegin(h) ==
  /\ ~exited
  /\ prod[h] = "open"
  /\ chClosed' = [chClosed EXCEPT ![h] = TRUE]
  /\ prod' = [prod EXCEPT ![h] = "waitApply"]
  /\ UNCHANGED <<ch, wg, aw, wfch, wfClosed, wfwg, pw, file, released, exited,
                 nAdmitted, admitted, applied, handed, persisted>>
  /\ UNCHANGED outsidePipe

\* an OnClose that closes h.wf.ch without waiting for the apply worker
OnCloseWithoutWait(h) ==
  /\ ~exited
  /\ prod[h] = "waitApply"
  /\ wfClosed' = [wfClosed EXCEPT ![h] = TRUE]
  /\ prod' = [prod EXCEPT ![h] = "waitPersist"]
  /\ UNCHANGED <<ch, chClosed, wg, aw, wfch, wfwg, pw, file, released, exited,
                 nAdmitted, admitted, applied, handed, persisted>>
  /\ UNCHANGED outsidePipe

\* OnClose: h.wg.Wait() returns, close(h.wf.ch)
OnCloseApplyDone(h) ==
  /\ ~exited
  /\ prod[h] = "waitApply"
  /\ wg[h] = 0
  /\ wfClosed' = [wfClosed EXCEPT ![h] = TRUE]
  /\ prod' = [prod EXCEPT ![h] = "waitPersist"]
  /\ UNCHANGED <<ch, chClosed, wg, aw, wfch, wfwg, pw, file, released, exited,
                 nAdmitted, admitted, applied, handed, persisted>>
  /\ UNCHANGED outsidePipe

\* OnClose: h.wf.wg.Wait() returns, quit(false), and OnClose returns
OnCloseReturn(h) ==
  /\ ~exited
  /\ prod[h] = "waitPersist"
  /\ wfwg[h] = 0
  /\ released' = [released EXCEPT ![h] = TRUE]
  /\ prod' = [prod EXCEPT ![h] = "closed"]
  /\ UNCHANGED <<ch, chClosed, wg, aw, wfch, wfClosed, wfwg, pw, file, exited,
                 nAdmitted, admitted, applied, handed, persisted>>
  /\ UNCHANGED outsidePipe

\* the steps of one handler's producer and workers
HandlerNext(h) ==
  \/ \E e \in PipeEvents : OnEvent(h, e)
  \/ ReplayEventRecv(h)
  \/ AsyncWriteResToFile(h)
  \/ ReplayEventEnd(h)
  \/ \E opened \in BOOLEAN : DoWriteResToFileStart(h, opened)
  \/ \E written, change, opened \in BOOLEAN : DoWriteResToFileRecv(h, written, change, opened)
  \/ DoWriteResToFileEnd(h)
  \/ OnCloseBegin(h)
  \/ OnCloseApplyDone(h)
  \/ OnCloseReturn(h)

NextPipe ==
  \/ \E h \in Handlers, e \in PipeEvents : OnEvent(h, e)
  \/ \E h \in Handlers : ReplayEventRecv(h)
  \/ \E h \in Handlers : AsyncWriteResToFile(h)
  \/ \E h \in Handlers : ReplayEventEnd(h)
  \/ \E h \in Handlers, opened \in BOOLEAN : DoWriteResToFileStart(h, opened)
  \/ \E h \in Handlers, written, change, opened \in BOOLEAN :
       DoWriteResToFileRecv(h, written, change, opened)
  \/ \E h \in Handlers : DoWriteResToFileEnd(h)
  \/ \E h \in Handlers : OnCloseBegin(h)
  \/ \E h \in Handlers : OnCloseApplyDone(h)
  \/ \E h \in Handlers : OnCloseReturn(h)

InitP == InitSession({TRUE}) /\ InitPipe /\ InitFSM
SpecPipe == InitP /\ [][NextPipe]_vars

\* The two workers of a handler are goroutines and OnClose runs in its
\* caller: each takes its next step when it can. The producer need not send
\* another event nor call OnClose.
WorkersFair ==
  \A h \in Handlers :
    /\ WF_vars(ReplayEventRecv(h))
    /\ WF_vars(AsyncWriteResToFile(h))
    /\ WF_vars(ReplayEventEnd(h))
    /\ WF_vars(\E opened \in BOOLEAN : DoWriteResToFileStart(h, opened))
    /\ WF_vars(\E written, change, opened \in BOOLEAN :
                 DoWriteResToFileRecv(h, written, change, opened))
    /\ WF_vars(DoWriteResToFileEnd(h))
    /\ WF_vars(OnCloseApplyDone(h))
    /\ WF_vars(OnCloseReturn(h))
SpecPipeLive == InitP /\ [][NextPipe]_vars /\ WorkersFair

\* ------------------------------------------------- the events file
\* a hash that is the same for every connection
HashStrShared(h) == "c1"

\* e.Conn.HashStr() for the events of handler h: the connection identities
\* of the handlers differ, and so do their hashes
HashStr(h) == h

\* writeEventToFile, up to the append: the events stored for the hash are
\* loaded (none when the hash is not in the map) and e is appended to them
writeEventToFileLoad(h) ==
  /\ wev[h].at = "idle"
  /\ nWrites < MaxWrites
  /\ LET e == nWrites + 1
         hash == HashStr(h)
         events == IF hash \in DOMAIN eventsMap THEN eventsMap[hash] ELSE <<>>
     IN /\ wev' = [wev EXCEPT ![h] = [at |-> "loaded", hash |-> hash,
                                       events |-> Append(events, e)]]
        /\ passed' = [passed EXCEPT ![h] = Append(@, e)]
  /\ nWrites' = nWrites + 1
  /\ UNCHANGED <<eventsMap, eventsFile>>
  /\ UNCHANGED outsideMap

\* eventsMap.Store(hash, events)
writeEventToFileStore(h) ==
  /\ wev[h].at = "loaded"
  /\ eventsMap' = Put(eventsMap, wev[h].hash, wev[h].events)
  /\ wev' = [wev EXCEPT ![h] = [at |-> "stored"]]
  /\ UNCHANGED <<eventsFile, nWrites, passed>>
  /\ UNCHANGED outsideMap

\* the map is copied with Range, encoded and written to mysql_events.json;
\* when the encoding or the write fails the file stays as it is
writeEventToFileDump(h, ok) ==
  /\ wev[h].at = "stored"
  /\ eventsFile' = IF ok THEN eventsMap ELSE eventsFile
  /\ wev' = [wev EXCEPT ![h] = [at |-> "idle"]]
  /\ UNCHANGED <<eventsMap, nWrites, passed>>
  /\ UNCHANGED outsideMap

InitMap == InitSession({TRUE}) /\ InitPipe /\ InitFSM

NextMap ==
  \/ \E h \in Handlers : writeEventToFileLoad(h)
  \/ \E h \in Handlers : writeEventToFileStore(h)
  \/ \E h \in Handlers, ok \in BOOLEAN : writeEventToFileDump(h, ok)

SpecMap == InitMap /\ [][NextMap]_vars

\* ------------------------------------------------- the frames of a capture
\* The payloads the capture hands to Handle.
ClientBodies ==
  {ComQueryB("SELECT 1"), ComStmtPrepareB("SELECT 2"), ComQuitB, ComOtherB, EmptyB}
  \cup {ComStmtExecuteB(id, "ok", TRUE, <<"long">>, {}, 4) : id \in {1, 2}}
  \cup {ComStmtCloseB(1, "ok")}
ServerBodies ==
  {OkB("ok"), ColCountB(1), ColDefB("ok"), EofB, RowB("ok"), PrepOkB(1, 1, "ok")}

\* a sequence number Handle does not expect and that starts no command
OutOfSeq(f) == IF nextSeq(f) = SeqModulus - 1 THEN 1 ELSE nextSeq(f) + 1

\* the frames that may arrive next. With sequence number 0 or the expected
\* one: a client command, whole or the first or a later part of a longer
\* payload, or a server answer. With another sequence number: a frame of
\* either direction, whose payload Handle does not look at.
NextFrames(f, n) ==
  {Frame(s, FALSE, "c2s", b, n) : s \in {0, nextSeq(f)}, b \in ClientBodies \cup {ContB}}
  \cup {Frame(s, TRUE, "c2s", ComQueryB("SELECT 1"), n) : s \in {0, nextSeq(f)}}
  \cup {Frame(nextSeq(f), FALSE, "s2c", b, n) : b \in ServerBodies}
  \cup {Frame(0, FALSE, "s2c", OkB("ok"), n)}
  \cup {Frame(OutOfSeq(f), FALSE, d, OkB("ok"), n) : d \in {"c2s", "s2c"}}

\* one call of Handle
HandleFrame(p) ==
  /\ nFrames < MaxFrames
  /\ ~fsm.panicked
  /\ p.n = nFrames + 1
  /\ nFrames' = nFrames + 1
  /\ pkt' = p
  /\ fsm' = MySQLFSMHandle(fsm, p)
  /\ LET starts == fsm.state # "ComQuit" /\ StartsCommand(fsm, p)
     IN /\ cmdStart' = IF starts THEN p.n ELSE cmdStart
        /\ nDone' = (IF starts THEN 0 ELSE nDone)
                     + (IF fsm'.changed /\ fsm'.state \in Completion THEN 1 ELSE 0)
  /\ UNCHANGED outsideFSM

NextFSM == \E p \in NextFrames(fsm, nFrames + 1) : HandleFrame(p)

SpecFSM == InitP /\ [][NextFSM]_vars

\* ------------------------------------------- sessions with a history
RECURSIVE HandleAll(_, _)
\* the session after Handle was called for each frame of h in turn
\* (the first half of h is handled before the second half is looked at)
HandleAll(f, h) ==
  IF h = <<>> THEN f
  ELSE IF Len(h) = 1 THEN MySQLFSMHandle(f, h[1])
  ELSE LET m == Len(h) \div 2
       IN CHOOSE r \in {HandleAll(g, SubSeq(h, m + 1, Len(h))) :
                          g \in {HandleAll(f, SubSeq(h, 1, m))}} : TRUE

\* a session that has handled one of the given frame sequences before the
\* frames of the run arrive. The frames of a history are numbered up to 0;
\* each history ends within or at the end of its last command.
InitAfter(histories) ==
  \E h \in histories :
    /\ fsm = HandleAll(NewMySQLFSM, h)
    /\ pkt = IF h = <<>> THEN Nil ELSE h[Len(h)]
    /\ nFrames = 0
    /\ cmdStart = IF h = <<>> THEN 0
                  ELSE h[CHOOSE i \in 1..Len(h) :
                           h[i].Seq = 0 /\ \A j \in (i + 1)..Len(h) : h[j].Seq # 0].n
    /\ nDone = IF fsm.state \in Completion THEN 1 ELSE 0
    /\ NoCall

\* ------------------------------------------------- prepared statements
\* A new session, or one that has prepared statement 1 with one parameter.
InitStmt ==
  /\ InitSession({TRUE})
  /\ InitPipe
  /\ InitAfter({<<>>,
                <<Frame(0, FALSE, "c2s", ComStmtPrepareB("SELECT 2"), 0 - 1),
                  Frame(1, FALSE, "s2c", PrepOkB(1, 1, "ok"), 0)>>})

\* The frames of prepared-statement traffic: with sequence number 0 a
\* prepare, a close, or an execute of statement 1 (with the types or
\* without, with a value of 4 bytes, of 1 byte, a null, or values that end
\* early); with the expected number the server's answer to a prepare or an
\* execute; and a frame out of sequence.
NextStmt ==
  \E p \in
      {Frame(0, FALSE, "c2s", b, nFrames + 1) :
         b \in {ComStmtPrepareB("SELECT 3"), ComStmtCloseB(1, "ok"),
                ComStmtExecuteB(1, "ok", TRUE, <<"long">>, {}, 4),
                ComStmtExecuteB(1, "ok", FALSE, <<>>, {}, 4),
                ComStmtExecuteB(1, "ok", FALSE, <<>>, {1}, 0),
                ComStmtExecuteB(1, "ok", TRUE, <<"tiny">>, {}, 1),
                ComStmtExecuteB(1, "ok", FALSE, <<>>, {}, 1),
                ComStmtExecuteB(1, "ok", TRUE, <<"long">>, {}, 2),
                ComStmtExecuteB(1, "ok", TRUE, <<"date">>, {}, 2)}}
      \cup {Frame(nextSeq(fsm), FALSE, "s2c", b, nFrames + 1) :
              b \in {PrepOkB(1, 1, "ok"), PrepOkB(1, 1, "shortId"),
                     ErrB(1064, "syntax", "state"), OkB("ok")}}
      \cup {Frame(OutOfSeq(fsm), FALSE, "s2c", OkB("ok"), nFrames + 1)} :
    HandleFrame(p)

SpecStmt == InitStmt /\ [][NextStmt]_vars

\* --------------------------------------------------- captured results
\* A session that has read a query, or an execute of a prepared statement,
\* and then nothing, or the header of a result set of two columns and the
\* definition of the first.
InitRes ==
  /\ InitSession({TRUE})
  /\ InitPipe
  /\ InitAfter(
       LET afterQuery == <<Frame(0, FALSE, "c2s", ComQueryB("SELECT 1"), 0 - 1)>>
           afterExecute ==
             <<Frame(0, FALSE, "c2s", ComStmtPrepareB("SELECT 2"), 0 - 3),
               Frame(1, FALSE, "s2c", PrepOkB(1, 1, "ok"), 0 - 2),
               Frame(0, FALSE, "c2s",
                     ComStmtExecuteB(1, "ok", TRUE, <<"long">>, {}, 4), 0 - 1)>>
       IN {afterQuery, afterExecute}
          \cup {h \o <<Frame(1, FALSE, "s2c", ColCountB(2), 0),
                        Frame(2, FALSE, "s2c", ColDefB("ok"), 1)>> :
                  h \in {afterQuery, afterExecute}})

\* The frames of an answer, whole or cut short, with the expected sequence
\* number, and the next query.
NextRes ==
  \E p \in
      {Frame(nextSeq(fsm), FALSE, "s2c", b, nFrames + 1) :
         b \in {OkB("ok"), OkB("short"), EmptyB, ColCountB(0), ColCountB(1),
                ErrB(1064, "syntax", "state"), ErrB(1064, "syntax", "plain"),
                ErrB(1064, "syntax", "short"),
                ColDefB("ok"), ColDefB("shortStrings"), ColDefB("shortFixed"),
                EofB, RowB("ok")}}
      \cup {Frame(0, FALSE, "c2s", ComQueryB("SELECT 1"), nFrames + 1)} :
    HandleFrame(p)

SpecRes == InitRes /\ [][NextRes]_vars

\* ------------------------------------- handshakes and long requests
\* A new session, or one that has read the server's greeting.
InitHello ==
  /\ InitSession({TRUE})
  /\ InitPipe
  /\ InitAfter({<<>>, <<Frame(0, FALSE, "s2c", HandshakeReqB, 0)>>})

\* The frames of a connection's start and of requests longer than a frame:
\* with sequence number 0 a greeting, a query or a prepare, whole or the
\* first part of a longer payload; with the expected number the rest of a
\* payload, the client's answer to the greeting, whole or cut short, or
\* the server's answer to a request.
NextHello ==
  \E p \in
      {Frame(0, full, "c2s", b, nFrames + 1) :
         full \in BOOLEAN, b \in {ComQueryB("SELECT 1"), ComStmtPrepareB("SELECT 2")}}
      \cup {Frame(0, full, "s2c", HandshakeReqB, nFrames + 1) : full \in BOOLEAN}
      \cup {Frame(nextSeq(fsm), FALSE, d, ContB, nFrames + 1) : d \in {"c2s", "s2c"}}
      \cup {Frame(nextSeq(fsm), FALSE, "c2s", b, nFrames + 1) :
              b \in {HandshakeRespB("u", "", "ok")}
                    \cup {HandshakeRespB("u", "d", form) :
                            form \in {"ok", "shortFlags", "shortUser", "shortAuth",
                                      "shortDb", "hugeAuth"}}}
      \cup {Frame(nextSeq(fsm), FALSE, "s2c", b, nFrames + 1) :
              b \in {OkB("ok"), PrepOkB(1, 1, "ok")}} :
    HandleFrame(p)

SpecHello == InitHello /\ [][NextHello]_vars

\* ------------------------------------------- results of many frames
\* the frames of the request req and of its answer of one column and rows
\* rows, up to the last row: the last frame has the sequence number
\* (3 + rows) % 256
LongResult(req, rows) ==
  [i \in 1..(Len(req) + 3 + rows) |->
     LET n == i - (Len(req) + 3 + rows)
         s == i - Len(req)
     IN IF s <= 0 THEN [req[i] EXCEPT !.n = n]
        ELSE Frame(s % SeqModulus, FALSE, "s2c",
                   IF s = 1 THEN ColCountB(1)
                   ELSE IF s = 2 THEN ColDefB("ok")
                   ELSE IF s = 3 THEN EofB ELSE RowB("ok"), n)]

\* A session that is reading the rows of the answer to a query or to an
\* execute: the last frame it has buffered has a sequence number between
\* 253 and 255, or is the first row.
InitWrap ==
  /\ InitSession({TRUE})
  /\ InitPipe
  /\ InitAfter(
       LET aQuery == <<Frame(0, FALSE, "c2s", ComQueryB("SELECT 1"), 0)>>
           anExecute ==
             <<Frame(0, FALSE, "c2s", ComStmtPrepareB("SELECT 2"), 0),
               Frame(1, FALSE, "s2c", PrepOkB(1, 1, "ok"), 0),
               Frame(0, FALSE, "c2s", ComStmtExecuteB(1, "ok", TRUE, <<"long">>, {}, 4), 0)>>
       IN {LongResult(aQuery, rows) : rows \in {1} \cup ((SeqModulus - 6)..(SeqModulus - 4))}
          \cup {LongResult(anExecute, SeqModulus - 4)})

\* The frames of a long answer: a row or the EOF marker with the expected
\* sequence number or with 0, a row of maximum length, and a query.
NextWrap ==
  \E p \in
      {Frame(s, full, "s2c", RowB("ok"), nFrames + 1) :
         s \in {0, nextSeq(fsm)}, full \in BOOLEAN}
      \cup {Frame(s, FALSE, "s2c", EofB, nFrames + 1) : s \in {0, nextSeq(fsm)}}
      \cup {Frame(0, FALSE, "c2s", ComQueryB("SELECT 1"), nFrames + 1)} :
    HandleFrame(p)

SpecWrap == InitWrap /\ [][NextWrap]_vars

\* ------------------------------------------- functions called by themselves
\* the bytes of an integer of w bytes, lowest first: 0, 1, all bits set,
\* the sign bit alone, all bits but the sign bit
IntBytes(name, w) ==
  [i \in 1..w |->
     IF name = "zero" THEN 0
     ELSE IF name = "one" THEN (IF i = 1 THEN 1 ELSE 0)
     ELSE IF name = "ones" THEN 255
     ELSE IF name = "min" THEN (IF i = w THEN 128 ELSE 0)
     ELSE (IF i = w THEN 127 ELSE 255)]
IntNames == {"zero", "one", "ones", "min", "max"}
IntTypes == [tp : {"tiny", "short", "long", "longlong"}, unsigned : BOOLEAN]

\* the calls: parseExecParams for a statement of two integer parameters
\* with their values; MarshalJSON of a result without and with statement
\* text; load(k) on up to MaxPackets buffered frames, each of maximum length
\* or shorter, with a working buffer that holds an earlier payload
CallArgs ==
  {[fn |-> "parseExecParams", types |-> <<t1, t2>>, names |-> <<n1, n2>>,
    values |-> IntBytes(n1, IntWidth(t1.tp)) \o IntBytes(n2, IntWidth(t2.tp))] :
     t1 \in IntTypes, t2 \in IntTypes, n1 \in IntNames, n2 \in IntNames}
  \cup {[fn |-> "MarshalJSON", rr |-> [NewRr EXCEPT !.SqlStatment = q, !.ErrNO = no]] :
          q \in {"", "SELECT 1"}, no \in {0, LockWaitTimeout}}
  \cup {[fn |-> "load", k |-> k,
         packets |-> [i \in 1..n |-> Frame(i - 1, i \in full, "c2s", ContB, i)]] :
          k \in 0..MaxPackets, n \in 0..MaxPackets, full \in SUBSET (1..MaxPackets)}

InitCalls ==
  /\ InitSession({TRUE})
  /\ InitPipe
  /\ fsm = NewMySQLFSM /\ pkt = Nil /\ nFrames = 0 /\ cmdStart = 0 /\ nDone = 0
  /\ arg \in CallArgs
  /\ ret = Nil
  /\ depth = 0

\* the session on which load is called
LoadSession ==
  [NewMySQLFSM EXCEPT !.packets = arg.packets,
                      !.data = <<Frame(0, FALSE, "s2c", OkB("ok"), 0)>>]

CallParseExecParams ==
  /\ arg.fn = "parseExecParams" /\ ret = Nil
  /\ ret' = parseExecParamsBytes([ZeroStmt EXCEPT !.NumParams = Len(arg.types)],
                                 {}, arg.types, arg.values)
  /\ UNCHANGED <<sessVars, workVars, histVars, pipeVars, fsmVars, mapVars, arg, depth>>

CallLoad ==
  /\ arg.fn = "load" /\ ret = Nil
  /\ LET l == load(LoadSession, arg.k)
     IN ret' = [ok |-> l.ok, data |-> l.f.data]
  /\ UNCHANGED <<sessVars, workVars, histVars, pipeVars, fsmVars, mapVars, arg, depth>>

\* a call of rr.MarshalJSON: without statement text it returns "{}", with
\* it json.Marshal(rr) finds that ReplayRes has the method MarshalJSON
\* and calls it with the same value
MarshalJSON ==
  /\ arg.fn = "MarshalJSON" /\ ret = Nil /\ depth < MaxDepth
  /\ IF arg.rr.SqlStatment = ""
       THEN ret' = [json |-> "{}"] /\ depth' = depth
       ELSE ret' = ret /\ depth' = depth + 1
  /\ UNCHANGED <<sessVars, workVars, histVars, pipeVars, fsmVars, mapVars, arg>>

\* the calls have filled the goroutine's stack: the runtime ends the process
StackOverflow ==
  /\ arg.fn = "MarshalJSON" /\ ret = Nil /\ depth = MaxDepth
  /\ ret' = [fatal |-> "stack overflow"]
  /\ UNCHANGED <<sessVars, workVars, histVars, pipeVars, fsmVars, mapVars, arg, depth>>

NextCalls == CallParseExecParams \/ CallLoad \/ MarshalJSON \/ StackOverflow

SpecCalls == InitCalls /\ [][NextCalls]_vars

\* ------------------------------------------------------------ properties
Retrying == pc \in {"RETRYCOMQUERY", "RETRYCOMSTMTEXECUTE"}
Returned == pc \in {"after", "ret", "handed"}
\* ApplyEvent was invoked for the event the worker holds
Applying == {"LOOP", "RETRYCOMQUERY", "RETRYCOMSTMTEXECUTE", "after", "ret", "handed"}
QueryOrExecute == cur.Type \in {"EventQuery", "EventStmtExecute"}
\* a step that is one call of h.execute / h.stmtExecute
IsAttempt == Retrying /\ attempts' = attempts + 1
Prepares(n) == Cardinality({i \in 1..Len(n) : n[i][1] = "prepare"})

IsPrefix(s, r) == Len(s) <= Len(r) /\ SubSeq(r, 1, Len(s)) = s
Ids(s) == [i \in 1..Len(s) |-> s[i].id]

\* C1: each handler's apply worker calls DoEvent with the events in the
\* order in which OnEvent admitted them to that handler, whatever the other
\* handlers admit in between.
C1_ApplyFIFO == \A h \in Handlers : IsPrefix(applied[h], admitted[h])

C1_Witness ==
  /\ admitted["c1"] = <<1, 3>> /\ applied["c1"] = <<1, 3>>
  /\ admitted["c2"] = <<2>> /\ applied["c2"] = <<2>>

\* C2 (as stated): when OnClose has returned, every admitted event was
\* applied, every outcome passed to AsyncWriteResToFile was taken by the
\* persist worker, and both queues are empty.
C2_CloseDrainsAll ==
  \A h \in Handlers :
    prod[h] = "closed" =>
      /\ ch[h] = <<>> /\ applied[h] = admitted[h]
      /\ wfch[h] = <<>> /\ Ids(persisted[h]) = handed[h]

\* C3 (as stated, as what termination needs): while OnClose is waiting and
\* the process has not exited, the handler's producer or one of its workers
\* can take a step.
C3_OnCloseCanProceed ==
  \A h \in Handlers :
    (~exited /\ prod[h] \in {"waitApply", "waitPersist"}) => ENABLED HandlerNext(h)

\* C4 (as stated): while one event is applied there is at most one reconnect
\* and at most one retry of the event.
C4_OneReconnectOneRetry == reconnects <= 1 /\ retries <= 1

\* C5: for a Query or Execute event whose failed attempts all failed with
\* 1205, the attempts end with a successful one, which is attempt number
\* (lock waits + 1); no reconnect was made, and the row list is empty
\* whenever an attempt starts.
C5_LockWaitRetry ==
  /\ (Retrying => cur.Rr.ColValues = <<>>)
  /\ (QueryOrExecute /\ Returned /\ attempts > 0 /\ onlyLockWaits) =>
       /\ err = NoErr
       /\ attempts = lockWaits + 1
       /\ reconnects = 0 /\ retries = 0
       /\ rowsAtStart = 0

C5_Witness ==
  /\ pc = "ret" /\ cur.Type = "EventStmtExecute"
  /\ onlyLockWaits /\ lockWaits = 2 /\ attempts = 3
  /\ err = NoErr /\ cur.Rr.ColValues # <<>>

\* C6: ApplyEvent never ends a Query or Execute event with error 1205, and
\* the outcome handed on never carries 1205: an attempt answered with 1205
\* is followed by another attempt of the same event.
C6_LockWaitNeverFinal ==
  (QueryOrExecute /\ Returned) => (~IsLockWait(err) /\ cur.Rr.ErrNO # LockWaitTimeout)

C6_Witness ==
  /\ pc = "ret" /\ cur.Type = "EventQuery"
  /\ lockWaits >= 1 /\ IsMySQLError(err) /\ err.Number = 1064

\* C7: the reconnecting teardown keeps every cache entry with its query text
\* and with no handle; an Execute of an entry without handle prepares the
\* cached text once, and on success holds the handle on the open connection
\* and has executed it; an entry with a handle is executed without a prepare.
C7_ReconnectKeepsText ==
  [][ /\ (pc = "after" /\ reconnects' = reconnects + 1) =>
           /\ DOMAIN stmts' = DOMAIN stmts
           /\ \A id \in DOMAIN stmts :
                stmts'[id] = [query |-> stmts[id].query, handle |-> Nil]
      /\ (IsAttempt /\ pc = "RETRYCOMSTMTEXECUTE") =>
           LET id == cur.StmtID
               q == stmts[id].query
           IN IF stmts[id].handle = Nil
                THEN /\ Prepares(lastNet') <= 1
                     /\ \A i \in 1..Len(lastNet') :
                          lastNet'[i][1] = "prepare" => lastNet'[i][2] = q
                     /\ err' = NoErr =>
                          /\ Len(lastNet') >= 2
                          /\ SubSeq(lastNet', Len(lastNet') - 1, Len(lastNet'))
                               = <<<<"prepare", q>>, <<"exec", q>>>>
                          /\ stmts'[id] = [query |-> q, handle |-> Handle(q)]
                          /\ conn' # Nil
                ELSE Prepares(lastNet') = 0
    ]_vars

C7_Witness ==
  /\ pc = "after" /\ cur.Type = "EventStmtExecute"
  /\ retries = 1 /\ err = NoErr
  /\ lastNet = <<<<"prepare", "SELECT 2">>, <<"exec", "SELECT 2">>>>
  /\ \E id \in DOMAIN stmts : id # cur.StmtID /\ stmts[id].handle = Nil

\* C8 (as stated): an Execute event whose id is not cached returns the
\* local error 10000 and makes no call to the target.
C8_UnknownStmtLocalFault ==
  (pc = "ret" /\ cur.Type = "EventStmtExecute" /\ cur.StmtID \notin DOMAIN stmts) =>
    /\ IsMySQLError(err) /\ err.Number = StmtNotExist
    /\ calls = 0

\* C8 (amended): with a DSN configured, an Execute event whose id is not
\* cached returns the local error 10000 with no call to the target and no
\* change of the session; with no DSN it returns nil, also with no call.
C8_UnknownStmtLocalFaultWithDsn ==
  (pc = "ret" /\ cur.Type = "EventStmtExecute" /\ cur.StmtID \notin DOMAIN stmts) =>
    /\ calls = 0
    /\ IF dsn THEN IsMySQLError(err) /\ err.Number = StmtNotExist
              ELSE err = NoErr

C8_Witness ==
  /\ dsn /\ pc = "ret" /\ cur.Type = "EventStmtExecute"
  /\ cur.StmtID \notin DOMAIN stmts /\ DOMAIN stmts # {}
  /\ err.t = "mysql"

\* C9: the cache holds an id exactly when the last Prepare of that id
\* succeeded and no Close of it, Handshake or Quit was applied since; a Close
\* of an id that is not cached changes nothing.
C9_CacheMatchesEvents ==
  /\ [](DOMAIN stmts = cached)
  /\ [][ (pc = "LOOP" /\ cur.Type = "EventStmtClose" /\ cur.StmtID \notin DOMAIN stmts)
           => UNCHANGED sessVars ]_vars

C9_Witness ==
  /\ pc = "after" /\ cur.Type = "EventStmtClose"
  /\ nEvents = 3 /\ cached = {"99"} /\ cur.StmtID = "7"

\* C11 (as stated): ApplyEvent is invoked for an event only when the
\* directive for its timestamp is replay-and-compare.
C11_AppliedOnlyWhenDirected ==
  pc \in Applying => gate = "NeedReplaySQL"

\* C11 (amended): ApplyEvent is invoked for an event only when the directive
\* for its timestamp is replay-and-compare or the event is a Prepare or a
\* Close; an event of another kind whose directive is skip, log-only or
\* unknown is dropped with no call to the target and no change of the
\* session, and nothing of it is handed on.
C11_AppliedOnlyWhenDirectedOrStmt ==
  /\ [](pc \in Applying =>
         (gate = "NeedReplaySQL" \/ cur.Type \in {"EventStmtPrepare", "EventStmtClose"}))
  /\ [][ (pc = "idle" /\ gate' # "NeedReplaySQL"
            /\ cur'.Type \notin {"EventStmtPrepare", "EventStmtClose"}) =>
           /\ pc' = "dropped" /\ calls' = 0
           /\ UNCHANGED <<sessVars, nHanded>> ]_vars
  /\ [][ pc = "dropped" => (pc' = "idle" /\ calls' = 0 /\ UNCHANGED <<sessVars, nHanded>>) ]_vars

C11_Witness ==
  /\ pc = "dropped" /\ gate = "NeedWriteLog" /\ cur.Type = "EventStmtExecute"
  /\ cur.StmtID \in DOMAIN stmts /\ conn # Nil

\* the outcomes that reached h.wf.ch, in order
Delivered(h) == Ids(persisted[h]) \o Ids(wfch[h])
InSeq(x, s) == \E k \in 1..Len(s) : s[k] = x

\* C12 (as stated): every admitted event that is to be replayed is
\* eventually handed to the outcome sink (its outcome is sent on h.wf.ch),
\* unless the process has exited.
C12_ReplayedReachesSink ==
  \A h \in Handlers, i \in 1..MaxAdmit :
    InSeq([id |-> i, replay |-> TRUE], ch[h]) ~> (InSeq(i, Delivered(h)) \/ exited)

\* C13 (as stated): every row of the replay-side row list has one entry per
\* column of the fetched row; a row with a column whose conversion failed is
\* not in the list.
C13_RowsComplete ==
  \A i \in 1..Len(cur.Rr.ColValues) : Len(cur.Rr.ColValues[i]) = Len(Columns)

\* the database a connection for schema s is scoped to
DbOf(s) == IF s # "" THEN s ELSE BaseDB
Opens(n) == {i \in 1..Len(n) : n[i][1] \in {"open", "conn"}}

\* C14: the step that applies a Handshake event with schema S, when it
\* succeeds, closes the connection and the pool that were held, empties the
\* statement cache, sets the last-known schema to S and ends holding a pool
\* and a connection opened for S in that step; all this still holds when
\* ApplyEvent returns success for the event.
C14_HandshakeFresh ==
  /\ [][ (pc = "LOOP" /\ cur.Type = "EventHandshake" /\ err' = NoErr) =>
           /\ conn # Nil => InSeq(<<"closeConn", conn.db>>, lastNet')
           /\ pool # Nil => InSeq(<<"closePool", pool.db>>, lastNet')
           /\ Len(lastNet') >= 2
           /\ SubSeq(lastNet', Len(lastNet') - 1, Len(lastNet'))
                = <<<<"open", cur.DB>>, <<"conn", DbOf(cur.DB)>>>>
           /\ stmts' = EmptyStmts /\ schema' = cur.DB
           /\ pool' = [db |-> DbOf(cur.DB)] /\ conn' = [db |-> DbOf(cur.DB)] ]_vars
  /\ []((dsn /\ pc \in {"after", "ret", "handed"} /\ cur.Type = "EventHandshake"
          /\ err = NoErr) =>
          /\ stmts = EmptyStmts /\ schema = cur.DB
          /\ pool = [db |-> DbOf(cur.DB)] /\ conn = [db |-> DbOf(cur.DB)])

C14_Witness ==
  /\ pc = "ret" /\ cur.Type = "EventHandshake" /\ cur.DB = "db1" /\ err = NoErr
  /\ cached = {} /\ nEvents = 3 /\ retries = 1
  /\ lastNet = <<>> /\ conn = [db |-> "db1"]

\* C15: the step that applies a Quit event closes every statement handle of
\* the cache, the connection and the pool, leaves the cache empty and
\* neither pool nor connection held, and opens nothing; this still holds when
\* ApplyEvent returns.
C15_QuitReleasesAll ==
  /\ [][ (pc = "LOOP" /\ cur.Type = "EventQuit") =>
           /\ \A id \in DOMAIN stmts :
                stmts[id].handle # Nil => InSeq(<<"closeStmt", id>>, lastNet')
           /\ conn # Nil => InSeq(<<"closeConn", conn.db>>, lastNet')
           /\ pool # Nil => InSeq(<<"closePool", pool.db>>, lastNet')
           /\ Opens(lastNet') = {}
           /\ stmts' = EmptyStmts /\ conn' = Nil /\ pool' = Nil ]_vars
  /\ []((pc \in {"after", "ret", "handed"} /\ cur.Type = "EventQuit") =>
          /\ stmts = EmptyStmts /\ conn = Nil /\ pool = Nil
          /\ err = NoErr /\ Opens(lastNet) = {})

C15_Witness ==
  /\ pc = "ret" /\ cur.Type = "EventQuit" /\ nEvents = 3
  /\ calls = 3 /\ conn = Nil /\ stmts = EmptyStmts

\* C16: when no DSN is configured, no pool or connection is ever held, the
\* statement cache stays empty, no call is made to the target, and ApplyEvent
\* returns nil for every event: the switch is never entered and every applied
\* event's outcome carries no error.
C16_NoDsnNoReplay ==
  ~dsn =>
    /\ pool = Nil /\ conn = Nil /\ stmts = EmptyStmts
    /\ calls = 0 /\ lastNet = <<>>
    /\ err = NoErr
    /\ pc \in {"idle", "dropped", "ret", "handed"}
    /\ pc = "handed" => cur.Rr.ErrNO = 0

C16_Witness ==
  /\ ~dsn /\ pc = "handed" /\ cur.Type = "EventStmtExecute" /\ nEvents = 3
  /\ nHanded = 3

RECURSIVE IsSubseq(_, _)
\* s is r with some of its elements left out
IsSubseq(s, r) ==
  IF s = <<>> THEN TRUE
  ELSE IF r = <<>> THEN FALSE
  ELSE IF Head(s) = Head(r) THEN IsSubseq(Tail(s), Tail(r))
  ELSE IsSubseq(s, Tail(r))

\* C17: the persist worker of a handler takes the outcomes in the order in
\* which the apply worker passed them to AsyncWriteResToFile, and that order
\* is the order of admission with the events that were not replayed left out.
C17_PersistFIFO ==
  \A h \in Handlers :
    /\ IsPrefix(Ids(persisted[h]), handed[h])
    /\ IsSubseq(handed[h], admitted[h])

C17_Witness ==
  /\ admitted["c1"] = <<1, 2, 3>>
  /\ Ids(persisted["c1"]) = <<1, 3>>
  /\ persisted["c1"][1].written /\ ~persisted["c1"][2].written

Started == fsm.state # "ComQuit" /\ StartsCommand(fsm, pkt')

\* the sequence number that follows the last buffered frame's
FollowsLast(f, p) ==
  f.packets # <<>> /\ p.Seq = (f.packets[Len(f.packets)].Seq + 1) % SeqModulus

\* the frame of this step is neither a start nor the expected continuation
OutOfSequence == ~StartsCommand(fsm, pkt') /\ ~FollowsLast(fsm, pkt')

\* in SkipPacket a frame with a sequence number other than 0 leaves the state
\* SkipPacket, and a frame with sequence number 0 starts a new command
ResyncOnlyOnSeqZero ==
  fsm.state = "SkipPacket" =>
    IF pkt'.Seq # 0 THEN fsm'.state = "SkipPacket"
    ELSE fsm'.packets = <<pkt'>> /\ cmdStart' = pkt'.n /\ fsm'.state # "SkipPacket"
         /\ fsm'.pr.sqlBeginTime = pkt'.n

\* C18 as stated: a frame that is neither an accepted seq-0 start nor the
\* expected continuation sets the state to SkipPacket and is not buffered,
\* in every state; the state stays SkipPacket until a seq-0 frame, which
\* starts a new command.
C18_OutOfSequenceSkips ==
  [][/\ OutOfSequence => fsm'.state = "SkipPacket" /\ fsm'.packets = fsm.packets
     /\ ResyncOnlyOnSeqZero]_vars

\* C18 amended: in every state other than ComQuit a frame that is neither
\* an accepted seq-0 start nor the expected continuation sets the state to
\* SkipPacket and is not buffered; the state stays SkipPacket until a seq-0
\* frame, which starts a new command. In ComQuit the frame is dropped and
\* the state stays ComQuit.
C18_OutOfSequenceSkipsUnlessQuit ==
  [][/\ OutOfSequence => /\ fsm'.packets = fsm.packets
                          /\ fsm'.state = IF fsm.state = "ComQuit" THEN "ComQuit"
                                          ELSE "SkipPacket"
     /\ ResyncOnlyOnSeqZero]_vars

\* a frame was discarded out of sequence in the middle of a command
C18_Witness ==
  /\ fsm.state = "SkipPacket"
  /\ pkt # Nil /\ pkt.Seq # 0
  /\ fsm.packets # <<>>
  /\ \A i \in 1..Len(fsm.packets) : fsm.packets[i] # pkt

\* C19: after Handle takes a seq-0 frame as a start, the frame buffer holds
\* exactly that frame, and every payload loaded for decoding afterwards is
\* built only from frames received at or after that start.
C19_NoBytesOfEarlierCommand ==
  [][/\ Started => fsm'.packets = <<pkt'>>
     /\ fsm'.data # fsm.data =>
          \A i \in 1..Len(fsm'.data) : fsm'.data[i].n >= cmdStart']_vars

\* a second command was decoded after an earlier one had left frames behind
C19_Witness ==
  /\ cmdStart > 1
  /\ fsm.state = "ComQuery"
  /\ fsm.packets = <<pkt>>
  /\ fsm.data = <<pkt>>

\* C20: after Handle takes a seq-0 frame as a start, Query(), Stmt() and
\* StmtParams() hold a value only if the decoder of the new command set it:
\* the query for a query, the statement for a prepare, an execute or a
\* close, the parameters for an execute.
C20_ScratchReset ==
  [][Started =>
      /\ fsm'.query # "" => fsm'.state = "ComQuery"
      /\ fsm'.stmt # ZeroStmt =>
           fsm'.state \in {"ComStmtPrepare0", "ComStmtExecute", "ComStmtClose"}
      /\ fsm'.params # <<>> => fsm'.state = "ComStmtExecute"]_vars

\* ---------------------------------------------------------------- C21..C30
\* C22: once the state is ComQuit, every call of Handle, also for a seq-0
\* frame, leaves the state ComQuit, reports no change and leaves the frame
\* buffer, the statement table, the schema and the user name as they are.
C22_QuitIsTerminal ==
  [][fsm.state = "ComQuit" =>
      /\ fsm'.state = "ComQuit"
      /\ ~fsm'.changed
      /\ fsm'.packets = fsm.packets
      /\ fsm'.stmts = fsm.stmts
      /\ fsm'.schema = fsm.schema
      /\ fsm'.username = fsm.username]_vars

\* a seq-0 client command was handed to Handle after COM_QUIT
C22_Witness ==
  /\ fsm.state = "ComQuit"
  /\ pkt # Nil /\ pkt.Seq = 0 /\ pkt.Dir = "c2s" /\ pkt.Data.k = "comQuery"
  /\ fsm.packets # <<pkt>>
  /\ fsm.stmts # EmptyStmts

\* the payload of a single frame is a client command Handle knows or the
\* server's greeting
Recognised(p) ==
  \/ p.Dir = "c2s" /\ p.Data.k \in {"comQuery", "comStmtExecute", "comStmtPrepare",
                                     "comStmtClose", "comQuit"}
  \/ p.Dir = "s2c" /\ p.Data.k = "handshakeReq"

\* C25: for every ready seq-0 frame whose payload is no known client
\* command and no handshake, also one with an empty payload, Handle returns
\* normally with the state Unknown, and the next seq-0 frame starts a fresh
\* command.
C25_UnknownIsHarmless ==
  [][/\ Started /\ ~pkt'.Full /\ ~Recognised(pkt') =>
          ~fsm'.panicked /\ fsm'.state = "Unknown"
     /\ fsm.state = "Unknown" /\ pkt'.Seq = 0 =>
          fsm'.packets = <<pkt'>> /\ cmdStart' = pkt'.n]_vars

\* the last buffered frame has the maximum length
LastFull(f) == f.packets # <<>> /\ f.packets[Len(f.packets)].Full

\* C29: in a call of Handle after which the last buffered frame has the
\* maximum length, nothing is classified or decoded: the state stays, or
\* becomes Init by the reset of a seq-0 start, or becomes SkipPacket, and
\* the decoded fields keep their values (the result record is only reset
\* by a start).
C29_NoDecodingUntilReady ==
  [][LastFull(fsm') =>
      /\ fsm'.state \in {fsm.state, "Init", "SkipPacket"}
      /\ fsm'.state = "Init" /\ fsm.state # "Init" => Started
      /\ fsm'.state = "SkipPacket" /\ fsm.state # "SkipPacket" => fsm'.packets = fsm.packets
      /\ fsm'.data = fsm.data
      /\ fsm'.query = fsm.query /\ fsm'.stmt = fsm.stmt /\ fsm'.params = fsm.params
      /\ fsm'.stmts = fsm.stmts
      /\ fsm'.schema = fsm.schema /\ fsm'.username = fsm.username
      /\ fsm'.pr = IF Started THEN [NewPacketRes EXCEPT !.sqlBeginTime = pkt'.n]
                   ELSE fsm.pr]_vars

\* a frame of maximum length was buffered behind a decoded query
C29_Witness ==
  /\ Len(fsm.packets) = 2
  /\ fsm.packets[2] = pkt /\ pkt.Full
  /\ fsm.state = "ComQuery"

\* the number of value bytes the parameters other than nulls take with the
\* types tys, and the values they decode to
TypeBytes(tp) == IF tp = "tiny" THEN 1 ELSE IF tp = "long" THEN 4 ELSE 5
RECURSIVE ValueBytes(_, _, _)
ValueBytes(tys, nulls, i) ==
  IF i > Len(tys) THEN 0
  ELSE (IF i \in nulls THEN 0 ELSE TypeBytes(tys[i])) + ValueBytes(tys, nulls, i + 1)
ValuesOf(tys, nulls) == [i \in 1..Len(tys) |-> IF i \in nulls THEN "nil" ELSE tys[i]]

\* the frame of this step is a whole execute request, taken as a start, for
\* a statement of the table that has parameters
ExecuteOfKnown ==
  /\ Started /\ ~pkt'.Full /\ pkt'.Dir = "c2s"
  /\ pkt'.Data.k = "comStmtExecute" /\ pkt'.Data.form = "ok"
  /\ pkt'.Data.id \in DOMAIN fsm.stmts
  /\ fsm.stmts[pkt'.Data.id].NumParams > 0

\* C23: an execute without types (flag 0) for a statement whose types an
\* earlier execute supplied is decoded with the cached types and reaches
\* ComStmtExecute with the decoded parameters, whatever the number of
\* value bytes these types and the null bitmap call for.
C23_CachedTypesDecode ==
  [][ExecuteOfKnown /\ ~pkt'.Data.bound =>
      LET tys == fsm.stmts[pkt'.Data.id].types
      IN tys # <<>> /\ pkt'.Data.vlen = ValueBytes(tys, pkt'.Data.nulls, 1) =>
           /\ fsm'.state = "ComStmtExecute"
           /\ fsm'.params = ValuesOf(tys, pkt'.Data.nulls)
           /\ fsm'.stmt.types = tys]_vars

PrepareOK ==
  /\ fsm.state = "ComStmtPrepare0" /\ Len(fsm.packets) = 1
  /\ ~StartsCommand(fsm, pkt') /\ FollowsLast(fsm, pkt')
  /\ ~pkt'.Full /\ pkt'.Dir = "s2c"
  /\ pkt'.Data.k = "prepOk" /\ pkt'.Data.form = "ok"

\* the frame of this step is a whole close request, taken as a start
CloseHandled ==
  /\ Started /\ ~pkt'.Full /\ pkt'.Dir = "c2s"
  /\ pkt'.Data.k = "comStmtClose" /\ pkt'.Data.form = "ok"

\* C28: the statement table gains an id exactly with the decoded OK answer
\* to a prepare and loses it exactly with a close of that id; an answer to
\* a prepare that is not OK or cannot be decoded leaves the table as it is.
C28_StatementTable ==
  [][/\ DOMAIN fsm'.stmts =
          IF PrepareOK THEN DOMAIN fsm.stmts \cup {pkt'.Data.id}
          ELSE IF CloseHandled THEN DOMAIN fsm.stmts \ {pkt'.Data.id}
          ELSE DOMAIN fsm.stmts
     /\ PrepareOK => /\ fsm'.stmts[pkt'.Data.id].Query = fsm.stmt.Query
                      /\ fsm'.stmts[pkt'.Data.id].NumParams = pkt'.Data.np
     /\ fsm.state = "ComStmtPrepare0" /\ ~StartsCommand(fsm, pkt') /\ ~PrepareOK =>
          fsm'.stmts = fsm.stmts]_vars

\* a statement was prepared and closed, and the answer to a later prepare
\* could not be decoded
C28_Witness ==
  /\ fsm.stmts = EmptyStmts
  /\ fsm.state = "Unknown"
  /\ Len(fsm.packets) = 2
  /\ fsm.packets[1].Data.k = "comStmtPrepare"
  /\ fsm.packets[2].Data.k = "prepOk" /\ fsm.packets[2].Data.form = "shortId"
  /\ nFrames = MaxFrames

\* the execute request p can be decoded with the statement table of f: its
\* statement is known and its value bytes are those its types call for
ValidExecute(f, p) ==
  /\ p.Data.form = "ok" /\ p.Data.id \in DOMAIN f.stmts
  /\ LET st == f.stmts[p.Data.id]
         tys == IF p.Data.bound THEN p.Data.types ELSE st.types
     IN /\ Len(tys) = st.NumParams
        /\ \A i \in 1..Len(tys) : tys[i] \in {"tiny", "long", "date"}
        /\ p.Data.nulls \subseteq 1..Len(tys)
        /\ p.Data.vlen = ValueBytes(tys, p.Data.nulls, 1)

\* the frames buffered since the last start are a whole exchange of a
\* request of one frame and, where the command has an answer, an answer of
\* one frame, received one after the other
WholeExchange(f) ==
  /\ f.state # "SkipPacket" /\ f.packets # <<>>
  /\ LET req == f.packets[1]
         Answered(kinds) ==
           /\ Len(f.packets) >= 2
           /\ LET ans == f.packets[2]
              IN /\ ans.Seq = 1 /\ ans.n = req.n + 1
                 /\ ~ans.Full /\ ans.Dir = "s2c"
                 /\ ans.Data.k \in kinds
                 /\ ans.Data.k \in {"ok", "prepOk"} => ans.Data.form = "ok"
                 /\ ans.Data.k = "err" => ans.Data.form # "short"
     IN /\ req.Seq = 0 /\ ~req.Full /\ req.Dir = "c2s"
        /\ \/ req.Data.k = "comQuit"
           \/ req.Data.k = "comStmtClose" /\ req.Data.form = "ok"
           \/ req.Data.k = "comStmtPrepare" /\ Answered({"prepOk"})
           \/ req.Data.k = "comQuery" /\ Answered({"ok", "err"})
           \/ /\ req.Data.k = "comStmtExecute" /\ ValidExecute(f, req)
              /\ Answered({"ok", "err"})

\* C21: since the last frame that started a command at most one call of
\* Handle reported a change into a completion state, and exactly one did
\* when the frames of a whole exchange arrived one after the other, each
\* shorter than the maximum frame size.
C21_OneCompletionPerCommand ==
  /\ nDone <= 1
  /\ WholeExchange(fsm) => nDone = 1

\* the frame of this step is in sequence and is read as (part of) the
\* answer to a query or an execute
AnswerFrame ==
  /\ fsm.state \in {"ComQuery", "ComQuery1", "ComStmtExecute", "ComStmtExecute1"}
  /\ ~StartsCommand(fsm, pkt') /\ FollowsLast(fsm, pkt') /\ ~pkt'.Full
\* ... and is the first frame of the answer
FirstAnswerFrame ==
  AnswerFrame /\ fsm.state \in {"ComQuery", "ComStmtExecute"} /\ Len(fsm.packets) = 1

\* C24: when the first frame of the answer to a query or to an execute is
\* an ERR packet, the command completes on that frame and the error code
\* and message of the captured result are those of the packet, with the
\* SQL-state marker and its 5 characters, where present, left out.
C24_ErrPacketDecoded ==
  [][FirstAnswerFrame /\ pkt'.Data.k = "err" /\ pkt'.Data.form \in {"state", "plain"} =>
       /\ fsm'.changed
       /\ fsm'.state = (IF fsm.state = "ComQuery" THEN "ComQuery2" ELSE "ComStmtExecute2")
       /\ fsm'.pr.errNo = pkt'.Data.no
       /\ fsm'.pr.errDesc = pkt'.Data.msg]_vars

\* the payload of p ends before the fields the decoder reads from it
Truncated(p) ==
  \/ p.Data.k = "empty"
  \/ p.Data.k \in {"ok", "err"} /\ p.Data.form = "short"
  \/ p.Data.k = "coldef" /\ p.Data.form \in {"shortStrings", "shortFixed"}

\* C26: a truncated frame of an answer does not stop the process: Handle
\* returns, the session is in a state other than ComQuit, and the next
\* frame with sequence number 0 starts a new command.
C26_TruncatedAnswerIsHarmless ==
  [][AnswerFrame /\ Truncated(pkt') =>
       /\ ~fsm'.panicked
       /\ fsm'.state # "ComQuit"
       /\ StartsCommand(fsm', Frame(0, FALSE, "c2s", ComQueryB("SELECT 1"), pkt'.n + 1))]_vars

\* the frames of the answer buffered behind a request of one frame
AnswerOf(f) == SubSeq(f.packets, 2, Len(f.packets))
IsColDef(p) == p.Data.k = "coldef" /\ p.Data.form = "ok"
IsRow(p) == p.Data.k = "row" /\ p.Data.form = "ok"
IsEnd(p) == p.Data.k = "eof" \/ (p.Data.k = "err" /\ p.Data.form # "short")
\* a[1..m] is a header for n columns, their definitions, the EOF marker and
\* rows, as far as m goes
ResultPrefix(a, n, m) ==
  /\ \A i \in 2..m : i <= n + 1 => IsColDef(a[i])
  /\ m >= n + 2 => a[n + 2].Data.k = "eof"
  /\ \A i \in (n + 3)..m : IsRow(a[i])

\* C30: behind a header for N > 0 columns the result is not ended while N
\* definitions, the one EOF marker behind them and rows are read, and it
\* is ended by the frame that is the next EOF or ERR behind the marker;
\* behind an OK packet or a header for no column it is ended by the header.
C30_ResultSetFraming ==
  LET a == AnswerOf(fsm)
      n == a[1].Data.c
      text == fsm.packets[1].Data.k = "comQuery"
      rows == IF text THEN fsm.pr.tRows ELSE fsm.pr.bRows
      Reading == fsm.state = (IF text THEN "ComQuery1" ELSE "ComStmtExecute1")
      EndedAt(k) ==
        /\ fsm.state = (IF text THEN "ComQuery2" ELSE "ComStmtExecute2")
        /\ fsm.pr.sqlEndTime = a[k].n /\ nDone = 1
  IN /\ fsm.state # "SkipPacket" /\ ~fsm.panicked
     /\ Len(fsm.packets) >= 2 /\ ~fsm.packets[1].Full
     /\ fsm.state \in (IF text THEN {"ComQuery1", "ComQuery2"}
                        ELSE {"ComStmtExecute1", "ComStmtExecute2"})
     /\ \A i \in 1..Len(a) : ~a[i].Full
     => /\ (a[1].Data.k = "ok" /\ a[1].Data.form = "ok") \/ (a[1].Data.k = "colcount" /\ n = 0)
            => EndedAt(1)
        /\ a[1].Data.k = "colcount" /\ n > 0 =>
             /\ ResultPrefix(a, n, Len(a)) =>
                  /\ Reading /\ nDone = 0 /\ ~fsm.pr.ifReadResEnd
                  /\ Len(a) >= 2 => rows.columns = (IF Len(a) - 1 < n THEN Len(a) - 1 ELSE n)
                  /\ fsm.pr.readColEnd <=> Len(a) >= n + 1
                  /\ fsm.pr.ifReadColEndEofPacket <=> Len(a) >= n + 2
                  /\ Len(a) >= n + 2 => Len(rows.columnValue) = Len(a) - (n + 2) /\ ~rows.done
             /\ \A k \in (n + 3)..Len(a) :
                  ResultPrefix(a, n, k - 1) /\ IsEnd(a[k]) => EndedAt(k)

\* behind a header for two columns two definitions, the marker, a row and
\* the closing EOF were read, and the result of the execute ended with the
\* last of them
C30_Witness ==
  LET a == AnswerOf(fsm)
  IN /\ Len(a) = 6 /\ a[1].Data.k = "colcount" /\ a[1].Data.c = 2
     /\ IsColDef(a[2]) /\ IsColDef(a[3]) /\ a[4].Data.k = "eof"
     /\ IsRow(a[5]) /\ a[6].Data.k = "eof" /\ pkt = a[6]
     /\ fsm.state = "ComStmtExecute2" /\ fsm.changed
     /\ Len(fsm.pr.bRows.columnValue) = 1

\* the frame of this step is read as the client's answer to the greeting
\* and ends before the end of one of its fields
ShortHandshakeResponse ==
  /\ fsm.state = "Handshake0" /\ Len(fsm.packets) = 1
  /\ ~StartsCommand(fsm, pkt') /\ FollowsLast(fsm, pkt')
  /\ ~pkt'.Full /\ pkt'.Dir = "c2s"
  /\ pkt'.Data.k = "handshakeResp" /\ pkt'.Data.form # "ok"

\* C31: a handshake response that ends within one of its fields leaves
\* the session in Unknown, from where the next frame with sequence number
\* 0 is classified as on a new session.
C31_ShortHandshakeGivesUnknown ==
  [][ShortHandshakeResponse =>
       /\ ~fsm'.panicked
       /\ fsm'.state = "Unknown" /\ fsm'.changed
       /\ MySQLFSMHandle(fsm', Frame(0, FALSE, "c2s", ComQueryB("SELECT 1"),
                                     pkt'.n + 1)).state = "ComQuery"]_vars

\* the integer that IntBytes(name, w) stands for, read unsigned or signed
ExpectedInt(name, w, unsigned) ==
  IF name = "zero" THEN 0
  ELSE IF name = "one" THEN 1
  ELSE IF name = "ones" THEN (IF unsigned THEN 256^w - 1 ELSE 0 - 1)
  ELSE IF name = "min" THEN (IF unsigned THEN 256^w \div 2 ELSE 0 - (256^w \div 2))
  ELSE 256^w \div 2 - 1
\* ... is small enough to be computed here
Computable(name, w, unsigned) ==
  w <= 2 \/ name \in {"zero", "one"} \/ (name = "ones" /\ ~unsigned)
\* the 8 bytes of the 64-bit two's-complement form of v, lowest first
Bits64(v) ==
  LET u == IF v < 0 THEN 0 - (v + 1) ELSE v
      byte(i) == IF i <= 4 THEN (u \div 256^(i - 1)) % 256 ELSE 0
  IN [i \in 1..8 |-> IF v < 0 THEN 255 - byte(i) ELSE byte(i)]

\* C32: an integer parameter of 1, 2, 4 or 8 bytes is decoded from exactly
\* its own bytes, lowest first, as a uint64 when bit 0x80 of the type's
\* second byte is set and as the int64 of its two's-complement value
\* otherwise: the byte 0xFF is 255 unsigned and -1 signed.
C32_IntegerParams ==
  arg.fn = "parseExecParams" /\ ret # Nil =>
    /\ ret.err = NoErr /\ Len(ret.params) = Len(arg.types)
    /\ \A i \in 1..Len(arg.types) :
         LET ty == arg.types[i]
             w == IF ty.tp = "tiny" THEN 1 ELSE IF ty.tp = "short" THEN 2
                  ELSE IF ty.tp = "long" THEN 4 ELSE 8
             bs == IntBytes(arg.names[i], w)
             p == ret.params[i]
         IN /\ p.kind = (IF ty.unsigned THEN "uint64" ELSE "int64")
            /\ Computable(arg.names[i], w, ty.unsigned) =>
                 p.bits = Bits64(ExpectedInt(arg.names[i], w, ty.unsigned))
            /\ \A j \in 1..8 :
                 p.bits[j] = IF j <= w THEN bs[j]
                             ELSE IF ~ty.unsigned /\ bs[w] >= 128 THEN 255 ELSE 0

\* the byte 0xFF was decoded as -1 for a signed tiny and, behind it, the
\* bytes 0xFF 0xFF as 65535 for an unsigned short
C32_Witness ==
  /\ arg.fn = "parseExecParams" /\ ret # Nil
  /\ arg.types = <<[tp |-> "tiny", unsigned |-> FALSE], [tp |-> "short", unsigned |-> TRUE]>>
  /\ arg.values = <<255, 255, 255>>
  /\ ret.params[1] = [kind |-> "int64", bits |-> [j \in 1..8 |-> 255]]
  /\ ret.params[2] = [kind |-> "uint64", bits |-> [j \in 1..8 |-> IF j <= 2 THEN 255 ELSE 0]]

\* C33: MarshalJSON returns for every value: "{}" when the statement text
\* is empty, and otherwise the record of the result's fields.
C33_MarshalJSONReturns ==
  arg.fn = "MarshalJSON" =>
    /\ ret # [fatal |-> "stack overflow"]
    /\ ret # Nil => ret = (IF arg.rr.SqlStatment = "" THEN [json |-> "{}"]
                           ELSE [json |-> arg.rr])

\* the index (from 0) of the first frame from k on that is shorter than the
\* maximum size, or the number of frames when there is none
Terminator(ps, k) ==
  LET short == {j \in k..(Len(ps) - 1) : ~ps[j + 1].Full}
  IN IF short = {} THEN Len(ps) ELSE CHOOSE j \in short : \A x \in short : j <= x
\* the working buffer before the call
BufferBefore == <<Frame(0, FALSE, "s2c", OkB("ok"), 0)>>

\* C34 as stated: load(k) succeeds exactly when a frame shorter than the
\* maximum size follows zero or more frames of maximum size from index k
\* on, and the working buffer is then the payloads of the frames k to that
\* one; otherwise load fails and leaves the working buffer as it was.
C34_LoadFromAnyFrame ==
  arg.fn = "load" /\ ret # Nil =>
    LET j == Terminator(arg.packets, arg.k)
    IN /\ ret.ok <=> j < Len(arg.packets)
       /\ ret.data = IF ret.ok THEN SubSeq(arg.packets, arg.k + 1, j + 1) ELSE BufferBefore

\* C34, amended: load(k) succeeds exactly when frame k is the first frame
\* of a payload (k is 0, or frame k - 1 is shorter than the maximum size)
\* and a frame shorter than the maximum size follows zero or more frames of
\* maximum size from index k on; the working buffer is then the payloads of
\* the frames k to that one. Otherwise load fails and leaves the working
\* buffer as it was.
C34_LoadFromPayloadStart ==
  arg.fn = "load" /\ ret # Nil =>
    LET j == Terminator(arg.packets, arg.k)
    IN /\ ret.ok <=> (j < Len(arg.packets) /\ (arg.k = 0 \/ ~arg.packets[arg.k].Full))
       /\ ret.data = IF ret.ok THEN SubSeq(arg.packets, arg.k + 1, j + 1) ELSE BufferBefore

\* load(1) loaded the payload of two frames behind a payload of one frame
C34_Witness ==
  /\ arg.fn = "load" /\ arg.k = 1 /\ Len(arg.packets) = 3
  /\ ~arg.packets[1].Full /\ arg.packets[2].Full /\ ~arg.packets[3].Full
  /\ ret # Nil /\ ret.ok /\ ret.data = <<arg.packets[2], arg.packets[3]>>

\* the buffer holds one request of two or more frames, all but the last of
\* maximum length, and the frame of this step is the whole first frame of
\* the answer to it
AnswerToLongRequest ==
  /\ Len(fsm.packets) >= 2
  /\ \A i \in 1..Len(fsm.packets) : fsm.packets[i].Full <=> i < Len(fsm.packets)
  /\ ~StartsCommand(fsm, pkt') /\ FollowsLast(fsm, pkt') /\ ~pkt'.Full

\* C35: the answer to a query, a prepare or a greeting of two or more
\* frames is decoded from the first frame behind the request: an OK packet
\* completes the query with error code 0, an OK answer to a prepare puts the
\* statement into the statement table, and the client's answer to the
\* greeting is taken as the handshake response.
C35_AnswerBehindLongRequest ==
  [][AnswerToLongRequest =>
       /\ fsm.state = "ComQuery" /\ pkt'.Dir = "s2c" /\ pkt'.Data = OkB("ok") =>
            fsm'.changed /\ fsm'.state = "ComQuery2" /\ fsm'.pr.errNo = 0
       /\ fsm.state = "ComStmtPrepare0" /\ pkt'.Dir = "s2c" /\ pkt'.Data = PrepOkB(1, 1, "ok") =>
            1 \in DOMAIN fsm'.stmts
       /\ fsm.state = "Handshake0" /\ pkt'.Dir = "c2s" /\ pkt'.Data = HandshakeRespB("u", "d", "ok") =>
            fsm'.state = "Handshake1" /\ fsm'.username = "u"]_vars

\* a result is being read
Reading == fsm.state \in {"ComQuery1", "ComStmtExecute1"}

\* C36: while a result is being read, a frame with sequence number 0 is
\* buffered as the next frame of the result when the last buffered frame
\* has the sequence number 255, and only then; any other frame with
\* sequence number 0 sets the state to SkipPacket and is dropped: the
\* buffer, the command and its begin time stay, no command is started.
C36_SeqZeroWhileReading ==
  [][Reading /\ pkt'.Seq = 0 =>
       IF fsm.packets[Len(fsm.packets)].Seq = SeqModulus - 1
         THEN /\ fsm'.packets = Append(fsm.packets, pkt')
              /\ fsm'.state # "SkipPacket"
              /\ cmdStart' = cmdStart /\ fsm'.pr.sqlBeginTime = fsm.pr.sqlBeginTime
         ELSE /\ fsm'.state = "SkipPacket" /\ ~fsm'.changed
              /\ fsm'.packets = fsm.packets
              /\ fsm'.query = fsm.query /\ fsm'.stmt = fsm.stmt
              /\ cmdStart' = cmdStart /\ fsm'.pr.sqlBeginTime = fsm.pr.sqlBeginTime]_vars

\* a row with sequence number 0 was read behind the frame with sequence
\* number 255 of the same result, and the result is still being read
C36_Witness ==
  /\ Reading
  /\ Len(fsm.packets) = SeqModulus + 1
  /\ fsm.packets[SeqModulus].Seq = SeqModulus - 1
  /\ fsm.packets[SeqModulus + 1] = pkt /\ pkt.Seq = 0 /\ pkt.Data = RowB("ok")
  /\ nFrames > 0

\* the worker has ended or was never started
ApplyWorkerGone(h) == aw[h].at \in {"none", "done"}
PersistWorkerGone(h) == pw[h] \in {"none", "done", "returned"}

\* C37: the outcome queue of a handler is closed only when its apply worker
\* has ended, and its connection, pool and statements are released only
\* when its persist worker has ended too: the apply worker is never about
\* to send on the closed outcome queue and never at work after the release.
C37_CloseOrder ==
  \A h \in Handlers :
    /\ wfClosed[h] => ApplyWorkerGone(h)
    /\ released[h] => wfClosed[h] /\ ApplyWorkerGone(h) /\ PersistWorkerGone(h)
    /\ aw[h].at = "send" => ~wfClosed[h] /\ ~released[h]

\* OnClose has returned for a handler both of whose workers have run and
\* ended, with an outcome persisted
C37_Witness ==
  \E h \in Handlers :
    /\ released[h] /\ prod[h] = "closed"
    /\ aw[h].at = "done" /\ pw[h] = "done"
    /\ persisted[h] # <<>>

\* the events the map holds for the hash of handler h
Stored(h) == IF HashStr(h) \in DOMAIN eventsMap THEN eventsMap[HashStr(h)] ELSE <<>>

\* C38: whenever no call of writeEventToFile is under way, the map holds
\* for every handler's connection the events its apply worker called
\* writeEventToFile with, in that order, however the calls of the handlers
\* were interleaved; and while a handler's call is under way the map holds
\* its events up to the one of this call.
C38_NoLostUpdate ==
  \A h \in Handlers :
    /\ wev[h].at # "loaded" => Stored(h) = passed[h]
    /\ wev[h].at = "loaded" =>
         Stored(h) = SubSeq(passed[h], 1, Len(passed[h]) - 1)

\* two handlers have each stored two events, their calls interleaved, and
\* no call is under way
C38_Witness ==
  /\ \A h \in Handlers : wev[h].at = "idle" /\ Len(passed[h]) = 2
  /\ passed["c1"] = <<1, 3>>
  /\ eventsMap = [h \in Handlers |-> passed[h]]

\* an attempt of a Query or Execute event is about to be made
AtAttempt == pc \in {"RETRYCOMQUERY", "RETRYCOMSTMTEXECUTE"}

\* C39: every attempt of a Query or Execute event, the first one and the
\* ones behind a lock-wait timeout or a reconnect, starts with an empty row
\* list and adds its own rows to it, so that the list ApplyEvent returns
\* with holds the rows of the last attempt and no others.
C39_RowsOfFinalAttempt ==
  [][/\ AtAttempt => cur.Rr.ColValues = <<>>
     /\ AtAttempt /\ pc' = "after" =>
          /\ rowsAtStart' = 0
          /\ \E rows \in FetchedRows :
               Len(cur'.Rr.ColValues) <= Len(rows)
     /\ pc' = "ret" /\ cur.Type \in {"EventQuery", "EventStmtExecute"} /\ attempts' > 0 =>
          rowsAtStart' = 0 /\ cur'.Rr.ColValues = cur.Rr.ColValues]_vars

\* ApplyEvent returns with rows for a Query event that was attempted three
\* times or more: after a lock-wait timeout and after a reconnect
C39_Witness ==
  /\ pc = "ret" /\ cur.Type = "EventQuery"
  /\ lockWaits > 0 /\ retries > 0
  /\ attempts >= 3
  /\ cur.Rr.ColValues # <<>>

\* this step completes the answer to a query or an execute
CompletesResult ==
  /\ AnswerFrame /\ ~fsm'.panicked
  /\ fsm'.changed /\ fsm'.state \in {"ComQuery2", "ComStmtExecute2"}

\* ... on a frame that is no OK, ERR or EOF packet and no header without
\* columns: the decoder gave up on it
DecodingFailed ==
  /\ CompletesResult
  /\ pkt'.Data.k \notin {"ok", "err", "eof"}
  /\ ~(pkt'.Data.k = "colcount" /\ pkt'.Data.c = 0)

\* C40: when Handle completes the answer to a query or an execute because
\* the decoding failed, not because an OK, EOF or ERR packet was read, the
\* captured result has an error code other than 0.
C40_FailedDecodingHasErrNo ==
  [][DecodingFailed => fsm'.pr.errNo # 0]_vars
====
